---- MODULE Spec2Model ----
(***************************************************************************)
(* Model of aiopvpc: the PVPCData price cache (pvpc_data.py), its update   *)
(* cycle, the pruning / lookup of process_state_and_attributes and the     *)
(* sensor attributes derived from the cached series.                       *)
(*                                                                         *)
(* Time.  An instant is a number of minutes since 2021-10-29 00:00 UTC     *)
(* (a Friday, ISO week 43).  A datetime is a record                        *)
(*    [wall |-> minutes of the wall clock since 2021-10-29 00:00,          *)
(*     tz   |-> "naive" | "UTC" | "Madrid" | "Canary" | "Kolkata",         *)
(*     fold |-> 0 | 1]                                                     *)
(* as Python's datetime keeps them.  Europe/Madrid and Atlantic/Canary     *)
(* leave summer time at 2021-10-31 01:00 UTC, which is inside the window.  *)
(* Prices are integers, in units of 0.00001 EUR/kWh (PRICE_PRECISION = 5). *)
(***************************************************************************)
EXTENDS Integers, Sequences, FiniteSets, TLC

VARIABLES
    clock,            \* wall clock of the host: the instant of the hour in course
    local_timezone,   \* PVPCData._local_timezone
    current_prices,   \* PVPCData._current_prices, in dict (insertion) order
    state,            \* PVPCData.state
    state_available,  \* PVPCData.state_available
    attributes,       \* PVPCData.attributes
    cycle,            \* what the last operation did: its fetches and its result
    hours_left,       \* hours the clock may still advance
    day_log,          \* the GETs of a local day, as a run of hourly steps
                      \* counts them (MockAsyncSession.call_count)
    active_sensors,   \* the indicators of the active set
    sensors,          \* the series of every indicator
    all_cycle,        \* what the last operation on the indicators did
    pc,               \* where an update in course is: the GET it awaits
    up,               \* the local variables of the update in course
    tariff_in,        \* a local time and a zone flag asked for their period
    tariff_period,    \* what _tariff_period_key answered
    sensor_key,       \* the indicator whose attributes are made
    new_args,         \* the arguments of a call PVPCData(...)
    instance,         \* the fields __init__ sets: tariff, tariff_old, _session
    websessions,      \* the web sessions there are: the caller's, a temporal
    rng,              \* async_download_prices_for_range: where it is, its locals
    queue,            \* the asyncio.Queue of _multi_download
    workers,          \* the worker tasks: where each is and what it holds
    requested         \* the days requested of the provider, in order

\* the indicators and their coordinator
sensor_vars == <<active_sensors, sensors, all_cycle>>

\* an update taken one await at a time
step_vars == <<pc, up>>

\* a call of the tariff period function of pvpc_tariff.py
tariff_vars == <<tariff_in, tariff_period>>

\* the construction of the object and a range download
range_vars == <<new_args, instance, websessions, rng, queue, workers, requested>>

vars == <<clock, local_timezone, current_prices, state, state_available,
          attributes, cycle, hours_left, day_log, sensor_vars, step_vars,
          tariff_vars, sensor_key, range_vars>>

-----------------------------------------------------------------------------
(* Bounds of the model *)

\* number of hours the clock advances in a run
MaxHours == 2

-----------------------------------------------------------------------------
(* Calendar and time zones *)

MinutesPerHour == 60
MinutesPerDay == 1440

\* 2021-10-31 01:00 UTC: end of summer time in Spain
DstEnd == 2 * MinutesPerDay + 60

\* the hours at which a run may begin: 2021-10-30 17:00 UTC (19:00 in Madrid,
\* before the evening), 21:00 UTC (23:00 in Madrid, before the change of day)
\* and 23:00 UTC (01:00 in Madrid, before the repeated hour)
StartInstants ==
    {MinutesPerDay + h * MinutesPerHour : h \in {17, 21, 23}}

REFERENCE_TZ == "Madrid"
UTC_TZ == "UTC"

\* standard and summer offsets of a zone, in minutes
StdOffset(tz) ==
    CASE tz = "Madrid" -> 60
      [] tz = "Canary" -> 0
      [] tz = "Kolkata" -> 330
      [] OTHER -> 0

HasDst(tz) == tz \in {"Madrid", "Canary"}

\* zoneinfo: offset of the zone at a UTC instant
OffsetAt(tz, instant) ==
    IF HasDst(tz) /\ instant < DstEnd THEN StdOffset(tz) + 60 ELSE StdOffset(tz)

\* zoneinfo: offset of a wall clock reading; fold chooses between the two
\* readings of the repeated hour
utcoffset(dt) ==
    IF ~HasDst(dt.tz) THEN StdOffset(dt.tz)
    ELSE IF dt.wall < DstEnd + StdOffset(dt.tz) THEN StdOffset(dt.tz) + 60
    ELSE IF dt.wall < DstEnd + StdOffset(dt.tz) + 60
         THEN (IF dt.fold = 0 THEN StdOffset(dt.tz) + 60 ELSE StdOffset(dt.tz))
    ELSE StdOffset(dt.tz)

\* the UTC instant of an aware datetime
Instant(dt) == dt.wall - utcoffset(dt)

\* datetime.astimezone(tz) of an aware datetime
astimezone(dt, tz) ==
    LET i == Instant(dt)
    IN  [wall |-> i + OffsetAt(tz, i),
         tz   |-> tz,
         fold |-> IF HasDst(tz) /\ i >= DstEnd /\ i < DstEnd + 60 THEN 1 ELSE 0]

\* a UTC datetime from an instant
UtcDatetime(i) == [wall |-> i, tz |-> UTC_TZ, fold |-> 0]

\* datetime.date(), as a day number (0 = 2021-10-29), and datetime.hour
DateOf(dt) == dt.wall \div MinutesPerDay
HourOf(dt) == (dt.wall % MinutesPerDay) \div MinutesPerHour

\* date.isoweekday(): 1 = Monday .. 7 = Sunday; day 0 is a Friday
isoweekday(day) == ((day + 4) % 7) + 1

\* date.isocalendar(): <<year, week, weekday>>; day 0 is in week 43 of 2021
isocalendar(day) == <<2021, 43 + ((day + 4) \div 7), isoweekday(day)>>

\* datetime.replace(minute=0, second=0, microsecond=0)
ReplaceMinute0(dt) == [dt EXCEPT !.wall = dt.wall - (dt.wall % MinutesPerHour)]

\* datetime.replace(hour=0)
ReplaceHour0(dt) ==
    [dt EXCEPT !.wall = DateOf(dt) * MinutesPerDay + (dt.wall % MinutesPerHour)]

\* datetime + timedelta(minutes): wall clock arithmetic
PlusMinutes(dt, m) == [dt EXCEPT !.wall = dt.wall + m, !.fold = 0]

\* ensure_utc_time reading a naive datetime in the reference zone
ensure_utc_time_naive_as_local(ts) ==
    IF ts.tz = "naive"
    THEN astimezone([wall |-> ts.wall, tz |-> REFERENCE_TZ, fold |-> 0], UTC_TZ)
    ELSE IF ts.tz # UTC_TZ THEN astimezone(ts, UTC_TZ)
    ELSE ts

ensure_utc_time(ts) ==
    IF ts.tz = "naive" THEN [wall |-> ts.wall, tz |-> UTC_TZ, fold |-> 0]
    ELSE IF ts.tz # UTC_TZ THEN astimezone(ts, UTC_TZ)
    ELSE ts

-----------------------------------------------------------------------------
(* dict[datetime, float] as a sequence of [ts, price] in insertion order *)

\* a function on 1..n as the list of its values
AsList(f) == f \o <<>>

Keys(d) == {d[i].ts : i \in 1..Len(d)}

Get(d, k) == LET i == CHOOSE j \in 1..Len(d) : d[j].ts = k IN d[i].price

Values(d) == {d[i].price : i \in 1..Len(d)}

\* an update that keeps the value of a key already present
DictUpdate_keep_first(d, u) ==
    LET kd == Keys(d)
        NewKey(e) == e.ts \notin kd
    IN  d \o SelectSeq(u, NewKey)

\* an update that puts the new keys before the keys already present
DictUpdate_new_first(d, u) ==
    LET kd == Keys(d)
        ku == Keys(u)
        NewKey(e) == e.ts \notin kd
    IN  SelectSeq(u, NewKey)
        \o [i \in 1..Len(d) |->
               IF d[i].ts \in ku THEN [ts |-> d[i].ts, price |-> Get(u, d[i].ts)]
               ELSE d[i]]

\* d.update(u), u without repeated keys: the keys of d keep their place and
\* take the value of u, the new keys follow in the order of u
DictUpdate(d, u) ==
    LET kd == Keys(d)
        ku == Keys(u)
        NewKey(e) == e.ts \notin kd
    IN  [i \in 1..Len(d) |->
            IF d[i].ts \in ku THEN [ts |-> d[i].ts, price |-> Get(u, d[i].ts)]
            ELSE d[i]]
        \o SelectSeq(u, NewKey)

-----------------------------------------------------------------------------
(* The provider and one download *)

\* hours in the daily file of a day (Madrid days): 25 on 2021-10-31
NumHours(day) == IF day = 2 THEN 25 ELSE 24

\* the price the provider publishes for hour i of a day, in a revision
ProviderPrice(day, i, rev) == 100 + 3 * ((5 * day + 7 * i) % 11) + rev

\* the revision of the file of a day that the provider serves at an instant:
\* the prices published the evening before are revised when the day begins
ProviderRevision(day, instant) ==
    IF DateOf(astimezone(UtcDatetime(instant), REFERENCE_TZ)) >= day THEN 1
    ELSE 0

\* what one GET can come to
Outcomes ==
    {"ok", "timeout", "client_error", "http_401", "no_pvpc", "empty_list"}

\* resp.status
StatusOf(outcome) ==
    IF outcome = "http_401" THEN 401 ELSE 200

\* the exception raised inside the try block of _download_pvpc_prices:
\* by session.get (timeout, transport error) or, for a status < 400, by
\* extract_pvpc_data on the payload
RaisedInTry(outcome) ==
    CASE outcome = "timeout" -> "TimeoutError"
      [] outcome = "client_error" -> "ClientError"
      [] outcome = "no_pvpc" -> "KeyError"       \* data["PVPC"] missing
      [] outcome = "empty_list" -> "IndexError"  \* data["PVPC"][0] of []
      [] OTHER -> "none"

\* the except clauses of _download_pvpc_prices
CaughtExceptions == {"KeyError", "TimeoutError", "ClientError"}

extract_pvpc_data(day, rev, tz) ==
    LET ts_init == Instant([wall |-> day * MinutesPerDay, tz |-> tz, fold |-> 0])
    IN  [i \in 1..NumHours(day) |->
            [ts |-> ts_init + MinutesPerHour * (i - 1),
             price |-> ProviderPrice(day, i - 1, rev)]]

\* _download_pvpc_prices without the test of resp.status: the body of an
\* error response is parsed as a daily file
download_pvpc_prices_any_status(day, outcome, rev, tz) ==
    LET exc == RaisedInTry(outcome)
    IN  IF exc \in CaughtExceptions THEN [raised |-> "none", prices |-> <<>>]
        ELSE IF exc # "none" THEN [raised |-> exc, prices |-> <<>>]
        ELSE [raised |-> "none", prices |-> extract_pvpc_data(day, rev, tz)]

\* result of _download_pvpc_prices: the dict returned, or the exception that
\* leaves the method
download_pvpc_prices(day, outcome, rev, tz) ==
    LET exc == RaisedInTry(outcome)
    IN  IF exc \in CaughtExceptions THEN [raised |-> "none", prices |-> <<>>]
        ELSE IF exc # "none" THEN [raised |-> exc, prices |-> <<>>]
        ELSE IF StatusOf(outcome) < 400
             THEN [raised |-> "none", prices |-> extract_pvpc_data(day, rev, tz)]
        ELSE [raised |-> "none", prices |-> <<>>]

-----------------------------------------------------------------------------
(* The update cycle *)

NoCycle == [op |-> "none", fetches |-> <<>>, raised |-> "none", ret |-> <<>>,
            ok |-> FALSE]

Fetch(kind, day, outcome) == [kind |-> kind, day |-> day, outcome |-> outcome]

\* the evening beginning one hour late
IsEvening_after_20(local_ref_now) == HourOf(local_ref_now) > 20

\* the evening told by the hour in UTC
IsEvening_utc_hour(local_ref_now) ==
    HourOf(astimezone(local_ref_now, UTC_TZ)) >= 20

\* "At evening, it is possible to retrieve next day prices"
IsEvening(local_ref_now) == HourOf(local_ref_now) >= 20

\* PVPCData.async_update_prices(now) on the cache prev, run at the instant
\* at; o1 and o2 are what the first and the second GET come to.  The result
\* is the cache after the call, the GETs made, the exception that left the
\* call and the dict returned.
async_update_prices(prev, now, o1, o2, at, tz) ==
    LET utc_now == ensure_utc_time(now)
        local_ref_now == astimezone(utc_now, REFERENCE_TZ)
        today == DateOf(local_ref_now)
        got == download_pvpc_prices(today, o1, ProviderRevision(today, at), tz)
        next_day == DateOf(PlusMinutes(local_ref_now, MinutesPerDay))
        fut == download_pvpc_prices(next_day, o2,
                                    ProviderRevision(next_day, at), tz)
        f1 == <<Fetch("today", today, o1)>>
        f2 == <<Fetch("today", today, o1), Fetch("next_day", next_day, o2)>>
        prices == DictUpdate(got.prices, fut.prices)
    IN  IF got.raised # "none"
        THEN [cache |-> prev, fetches |-> f1, raised |-> got.raised, ret |-> <<>>]
        ELSE IF got.prices = <<>>
        THEN [cache |-> prev, fetches |-> f1, raised |-> "none", ret |-> <<>>]
        ELSE IF IsEvening(local_ref_now)
        THEN IF fut.raised # "none"
             THEN [cache |-> prev, fetches |-> f2, raised |-> fut.raised,
                   ret |-> <<>>]
             ELSE [cache |-> DictUpdate(prev, prices), fetches |-> f2,
                   raised |-> "none", ret |-> prices]
        ELSE [cache |-> DictUpdate(prev, got.prices), fetches |-> f1,
              raised |-> "none", ret |-> got.prices]

-----------------------------------------------------------------------------
(* Tariff periods, as pvpc_data.py computes them *)

\* holidays.Spain(observed=False, years=2021) within the window: 2021-11-01
SpainHolidays == {3}

tariff_period_key(local_ts, zone_ceuta_melilla) ==
    LET day == DateOf(local_ts)
        hour == HourOf(local_ts)
        national_holiday == day \in SpainHolidays
    IN  IF national_holiday \/ isoweekday(day) >= 6 \/ hour < 8 THEN "P3"
        ELSE IF zone_ceuta_melilla /\ hour \in {8, 9, 10, 15, 16, 17, 18, 23}
        THEN "P2"
        ELSE IF ~zone_ceuta_melilla /\ hour \in {8, 9, 14, 15, 16, 17, 22, 23}
        THEN "P2"
        ELSE "P1"

\* hours looked ahead for the next period: every week has a change of period
WalkLimit == 7 * 24

\* _get_current_and_next_tariff_periods: the while loop stops at the first
\* delta, in hours, at which the period differs from the current one
get_current_and_next_tariff_periods(local_ts, zone_ceuta_melilla) ==
    LET current_period == tariff_period_key(local_ts, zone_ceuta_melilla)
        PeriodAt(delta) ==
            tariff_period_key(PlusMinutes(local_ts, delta * MinutesPerHour),
                              zone_ceuta_melilla)
        delta == CHOOSE k \in 1..WalkLimit :
                    /\ PeriodAt(k) # current_period
                    /\ \A j \in 1..(k - 1) : PeriodAt(j) = current_period
    IN  <<current_period, PeriodAt(delta), delta>>

-----------------------------------------------------------------------------
(* Sensor attributes *)

ATTRIBUTION == "Data retrieved from api.esios.ree.es by REE"

\* date(2021, 6, 1), 150 days before day 0
DATE_CHANGE_TO_20TD == (0 - 150) * MinutesPerDay

\* PVPCData.tariff, PVPCData.tariff_old, PVPCData._zone_ceuta_melilla
Tariff == "2.0TD"
TariffOld == "discrimination"
ZoneCeutaMelilla == FALSE

\* int(1000 * self._power), int(1000 * self._power_valley)
Power == 3300
PowerValley == 4600

\* attributes[key] = value
Put(attrs, key, value) == (key :> value) @@ attrs

\* f"{hour:02d}"
Hour02d(hour) == IF hour < 10 THEN "0" \o ToString(hour) ELSE ToString(hour)

SetMin(S) == CHOOSE x \in S : \A y \in S : x <= y
SetMax(S) == CHOOSE x \in S : \A y \in S : x >= y

\* dict(sorted(d.items(), key=lambda x: x[1])): a stable sort by price; the
\* entry i goes after the cheaper entries and the earlier ones of its price
SortedByPrice(d) ==
    LET n == Len(d)
        rank == AsList([i \in 1..n |->
                    Cardinality({j \in 1..n :
                        \/ d[j].price < d[i].price
                        \/ d[j].price = d[i].price /\ j <= i})])
    IN  AsList([r \in 1..n |-> d[CHOOSE i \in 1..n : rank[i] = r]])

\* round(num / den, 2), in hundredths (ties to even)
Round2(num, den) ==
    LET q == (100 * num) \div den
        r == (100 * num) % den
    IN  IF 2 * r < den THEN q
        ELSE IF 2 * r > den THEN q + 1
        ELSE IF q % 2 = 0 THEN q ELSE q + 1

\* _is_tomorrow_price(ts, ref) of _make_sensor_attributes
is_tomorrow_price(ts, ref) ==
    LET a == isocalendar(DateOf(ts))
        b == isocalendar(DateOf(ref))
    IN  \E i \in 1..3 : a[i] > b[i]

\* the key of a price in the attributes
PriceTag(ts_local, local_time) ==
    IF is_tomorrow_price(ts_local, local_time)
    THEN "price_next_day_" \o Hour02d(HourOf(ts_local)) \o "h"
    ELSE "price_" \o Hour02d(HourOf(ts_local)) \o "h"

\* the loop without the "_d" suffix: a repeated hour overwrites its key
PriceTags_overwrite(attrs, d, local_time, timezone) ==
    LET n == Len(d)
        tag == AsList([i \in 1..n |->
                   PriceTag(astimezone(UtcDatetime(d[i].ts), timezone),
                            local_time)])
        Stored(k) == {i \in 1..n : tag[i] = k}
    IN  [k \in DOMAIN attrs \cup {tag[i] : i \in 1..n} |->
            IF Stored(k) # {} THEN d[SetMax(Stored(k))].price ELSE attrs[k]]

\* the loop over current_prices.items() that ends _make_sensor_attributes:
\* entry i is stored under its key, or under the key with "_d" appended when
\* the key is already in the attributes ("DST change with duplicated hour"),
\* that is when it was there before the loop or an earlier entry has it; of
\* the entries stored under one key the last one stays
PriceTags(attrs, d, local_time, timezone) ==
    LET n == Len(d)
        tag == AsList([i \in 1..n |->
                   PriceTag(astimezone(UtcDatetime(d[i].ts), timezone),
                            local_time)])
        attr_key == AsList([i \in 1..n |->
                        IF \/ tag[i] \in DOMAIN attrs
                           \/ \E j \in 1..(i - 1) : tag[j] = tag[i]
                        THEN tag[i] \o "_d" ELSE tag[i]])
        Stored(k) == {i \in 1..n : attr_key[i] = k}
    IN  [k \in DOMAIN attrs \cup {attr_key[i] : i \in 1..n} |->
            IF Stored(k) # {} THEN d[SetMax(Stored(k))].price ELSE attrs[k]]

LocalHourOf(ts, timezone) == HourOf(astimezone(UtcDatetime(ts), timezone))

\* the valley power is taken for the periods other than P3
available_power_for_peak(current_period, power, power_valley) ==
    IF current_period = "P3" THEN power ELSE power_valley

\* power_valley if current_period == "P3" else power
available_power_for(current_period, power, power_valley) ==
    IF current_period = "P3" THEN power_valley ELSE power

make_sensor_attributes(d, utc_time, timezone, zone_ceuta_melilla, power, power_valley) ==
    LET now_ts == Instant(utc_time)
        current_price == Get(d, now_ts)
        local_time == astimezone(utc_time, timezone)
        periods == get_current_and_next_tariff_periods(local_time,
                                                       zone_ceuta_melilla)
        a1 == [period |-> periods[1],
               available_power |->
                   available_power_for(periods[1], power, power_valley),
               next_period |-> periods[2],
               hours_to_next_period |-> periods[3]]
        IsBetterAhead(e) == e.ts > now_ts /\ e.price < current_price
        better_prices_ahead == SelectSeq(d, IsBetterAhead)
        a2 == IF better_prices_ahead = <<>> THEN a1
              ELSE [next_better_price |-> better_prices_ahead[1].price,
                    hours_to_better_price |->
                        (better_prices_ahead[1].ts - now_ts) \div MinutesPerHour,
                    num_better_prices_ahead |-> Len(better_prices_ahead)] @@ a1
        prices_sorted == SortedByPrice(d)
        position ==
            SetMin({i \in 1..Len(d) : prices_sorted[i].price = current_price})
        max_price == SetMax(Values(d))
        min_price == SetMin(Values(d))
        a3 == Put(a2, "price_position", position)
        a4 == IF max_price = min_price THEN a3
              ELSE Put(a3, "price_ratio",
                       Round2(current_price - min_price, max_price - min_price))
        FromNow(e) == e.ts >= now_ts
        ahead == SelectSeq(prices_sorted, FromNow)
        a5 == [max_price |-> max_price,
               max_price_at |->
                   LocalHourOf(prices_sorted[Len(d)].ts, timezone),
               min_price |-> min_price,
               min_price_at |-> LocalHourOf(prices_sorted[1].ts, timezone),
               next_best_at |->
                   [i \in 1..Len(ahead) |-> LocalHourOf(ahead[i].ts, timezone)]]
             @@ a4
    IN  PriceTags(a5, d, local_time, timezone)

-----------------------------------------------------------------------------
(* process_state_and_attributes *)

\* the pruning with the midnight of the day in UTC
Pruned_utc_midnight(d, utc_time, timezone) ==
    LET actual_time == astimezone(utc_time, timezone)
        max_age == Instant(ReplaceHour0(utc_time))
        Fresh(e) == e.ts >= max_age
    IN  IF Len(d) > 25 /\ HourOf(actual_time) < 20 THEN SelectSeq(d, Fresh)
        ELSE d

\* the series kept by the pruning of process_state_and_attributes
Pruned(d, utc_time, timezone) ==
    LET actual_time == astimezone(utc_time, timezone)
        max_age ==
            Instant(ReplaceHour0(astimezone(utc_time, REFERENCE_TZ)))
        Fresh(e) == e.ts >= max_age
    IN  IF Len(d) > 25 /\ HourOf(actual_time) < 20 THEN SelectSeq(d, Fresh)
        ELSE d

\* a failed lookup that also forgets the state published before
process_state_and_attributes_clears_state(prev, prev_state, utc_now, timezone) ==
    LET tariff == IF utc_now.wall < DATE_CHANGE_TO_20TD THEN TariffOld ELSE Tariff
        base == [attribution |-> ATTRIBUTION, tariff |-> tariff]
        utc_time == ensure_utc_time(ReplaceMinute0(utc_now))
        kept == Pruned(prev, utc_time, timezone)
    IN  IF Instant(utc_time) \in Keys(kept)
        THEN [cache |-> kept,
              state |-> Get(kept, Instant(utc_time)),
              state_available |-> TRUE,
              attributes |->
                  make_sensor_attributes(kept, utc_time, timezone,
                                         ZoneCeutaMelilla, Power, PowerValley)
                  @@ base,
              utc_time |-> utc_time,
              ret |-> TRUE]
        ELSE [cache |-> kept,
              state |-> 0,
              state_available |-> FALSE,
              attributes |-> base,
              utc_time |-> utc_time,
              ret |-> FALSE]

\* PVPCData.process_state_and_attributes(utc_now) on the cache prev: the cache,
\* state, state_available and attributes after the call, the key utc_time it
\* looked up and the value returned
process_state_and_attributes(prev, prev_state, utc_now, timezone) ==
    LET tariff == IF utc_now.wall < DATE_CHANGE_TO_20TD THEN TariffOld ELSE Tariff
        base == [attribution |-> ATTRIBUTION, tariff |-> tariff]
        utc_time == ensure_utc_time(ReplaceMinute0(utc_now))
        kept == Pruned(prev, utc_time, timezone)
    IN  IF Instant(utc_time) \in Keys(kept)
        THEN [cache |-> kept,
              state |-> Get(kept, Instant(utc_time)),
              state_available |-> TRUE,
              attributes |->
                  make_sensor_attributes(kept, utc_time, timezone,
                                         ZoneCeutaMelilla, Power, PowerValley)
                  @@ base,
              utc_time |-> utc_time,
              ret |-> TRUE]
        ELSE [cache |-> kept,
              state |-> prev_state,
              state_available |-> FALSE,
              attributes |-> base,
              utc_time |-> utc_time,
              ret |-> FALSE]

-----------------------------------------------------------------------------
(* Inputs and actions *)

\* the datetimes a caller passes for the present moment, as <<zone, minute>>:
\* an exact hour in UTC, a naive utcnow(), a local time of Spain and a time of
\* a zone whose offset is not a whole number of hours
NowInputs == {<<"UTC", 0>>, <<"naive", 45>>, <<"Madrid", 45>>, <<"Kolkata", 0>>}

\* the instant clock + m read in the zone z; a naive one is the UTC reading
NowIn(z, m) ==
    IF z = "naive" THEN [wall |-> clock + m, tz |-> "naive", fold |-> 0]
    ELSE astimezone(UtcDatetime(clock + m), z)

UpdatePrices ==
    /\ \E in \in NowInputs, o1 \in Outcomes, o2 \in Outcomes :
            /\ (o1 # "ok" => o2 = "ok")
            /\ LET res == async_update_prices(current_prices,
                                              NowIn(in[1], in[2]),
                                              o1, o2, clock, local_timezone)
               IN  /\ current_prices' = res.cache
                   /\ cycle' = [op |-> "update", fetches |-> res.fetches,
                                raised |-> res.raised, ret |-> res.ret,
                                ok |-> FALSE]
    /\ UNCHANGED <<clock, local_timezone, state, state_available, attributes,
                   hours_left, day_log, sensor_vars, step_vars,
                   tariff_vars,
                   sensor_key, range_vars>>

ProcessState ==
    /\ \E in \in NowInputs :
            LET res == process_state_and_attributes(current_prices, state,
                                                    NowIn(in[1], in[2]),
                                                    local_timezone)
            IN  /\ current_prices' = res.cache
                /\ state' = res.state
                /\ state_available' = res.state_available
                /\ attributes' = res.attributes
                /\ cycle' = [op |-> "process", fetches |-> <<>>,
                             raised |-> "none", ret |-> <<>>, ok |-> res.ret,
                             utc_time |-> res.utc_time]
    /\ UNCHANGED <<clock, local_timezone, hours_left, day_log, sensor_vars,
                   step_vars, tariff_vars,
                   sensor_key, range_vars>>

\* the keys of the indicators
SensorKeys == {"PVPC", "INYECTION"}

NoAllCycle == [op |-> "none", fetches |-> {}, raised |-> "none",
               key |-> "none", enabled |-> FALSE]

\* every indicator active, no series yet
InitSensors ==
    /\ active_sensors = SensorKeys
    /\ sensors = [k \in SensorKeys |-> <<>>]
    /\ all_cycle = NoAllCycle

\* the keys of the regulated price and of the price of the injected energy
KEY_PVPC == "PVPC"

KEY_INJECTION == "INJECTION"

\* no update in course
NoUp == [local_ref |-> UtcDatetime(0), prices |-> <<>>]

InitSteps ==
    /\ pc = "idle"
    /\ up = NoUp

\* TARIFFS and OLD_TARIFFS of const.py
TARIFFS == <<"2.0TD", "2.0TD (Ceuta/Melilla)">>

OLD_TARIFFS == <<"normal", "discrimination", "electric_car">>

\* PVPCData.__init__: the fields of the new object.  The tariff and the web
\* session may be "None"; nothing in the method raises.
PVPCData_init(args) ==
    LET default == IF args.zone_ceuta_melilla THEN TARIFFS[2] ELSE TARIFFS[1]
        known == {TARIFFS[i] : i \in 1..Len(TARIFFS)}
        old == {OLD_TARIFFS[i] : i \in 1..Len(OLD_TARIFFS)}
    IN  [constructed |-> TRUE,
         raised |-> "none",
         tariff |-> IF args.tariff = "None" THEN "None"
                    ELSE IF args.tariff \in old THEN default
                    ELSE IF args.tariff \notin known THEN default
                    ELSE args.tariff,
         tariff_old |-> IF args.tariff = "None" THEN "None"
                        ELSE IF args.tariff \in old THEN args.tariff
                        ELSE "discrimination",
         session |-> args.websession,
         with_initial_session |-> args.websession # "None"]

\* PVPCData(tariff="2.0TD", websession=session): the object of the update runs
DefaultArgs ==
    [tariff |-> "2.0TD", zone_ceuta_melilla |-> FALSE, websession |-> "caller"]

\* no range download called
NoRange ==
    [pc |-> "idle", start_utc |-> 0, end_utc |-> 0, days |-> <<>>,
     raised |-> "none", ret |-> <<>>]

\* the session of the caller open, no download in course
InitRange ==
    /\ new_args = DefaultArgs
    /\ instance = PVPCData_init(DefaultArgs)
    /\ websessions = [caller |-> "open", temporal |-> "none"]
    /\ rng = NoRange
    /\ queue = [items |-> <<>>, unfinished |-> 0]
    /\ workers = <<>>
    /\ requested = <<>>

\* no period asked yet
NoTariffIn == [year |-> 0, month |-> 0, day |-> 0, hour |-> 0, zone |-> FALSE]

InitTariff ==
    /\ tariff_in = NoTariffIn
    /\ tariff_period = "none"

\* no GET counted yet
NoDayLog == [day |-> 0, fetches |-> <<>>]

Tick ==
    /\ hours_left > 0
    /\ hours_left' = hours_left - 1
    /\ clock' = clock + MinutesPerHour
    /\ cycle' = NoCycle
    /\ UNCHANGED <<local_timezone, current_prices, state, state_available,
                   attributes, day_log, sensor_vars, step_vars,
                   tariff_vars,
                   sensor_key, range_vars>>

Init ==
    /\ clock \in StartInstants
    /\ hours_left = MaxHours
    /\ local_timezone = REFERENCE_TZ
    /\ current_prices = <<>>
    /\ state = 0
    /\ state_available = FALSE
    /\ attributes = <<>>
    /\ cycle = NoCycle
    /\ day_log = NoDayLog
    /\ InitSensors
    /\ InitSteps
    /\ sensor_key = KEY_PVPC
    /\ InitRange
    /\ InitTariff

Next == UpdatePrices \/ ProcessState \/ Tick

Spec == Init /\ [][Next]_vars

-----------------------------------------------------------------------------
(* A run of hourly steps: every hour the caller awaits the update, then    *)
(* processes the state at the same time, then the next hour begins         *)

\* the hours at which a run of hourly steps may begin: 2021-10-30 18:00 UTC
\* (20:00 in Madrid) and 21:00 UTC (23:00 in Madrid)
HourlyStartInstants ==
    {MinutesPerDay + h * MinutesPerHour : h \in {18, 21}}

HourlyStep ==
    /\ hours_left > 0
    /\ \E o1 \in Outcomes, o2 \in Outcomes :
            /\ (o1 # "ok" => o2 = "ok")
            /\ LET start == UtcDatetime(clock)
                   today == DateOf(astimezone(start, REFERENCE_TZ))
                   upd == async_update_prices(current_prices, start, o1, o2,
                                              clock, local_timezone)
                   res == process_state_and_attributes(upd.cache, state, start,
                                                       local_timezone)
               IN  /\ IF upd.raised = "none"
                      THEN /\ current_prices' = res.cache
                           /\ state' = res.state
                           /\ state_available' = res.state_available
                           /\ attributes' = res.attributes
                      ELSE /\ current_prices' = upd.cache
                           /\ UNCHANGED <<state, state_available, attributes>>
                   /\ cycle' = [op |-> "update", fetches |-> upd.fetches,
                                raised |-> upd.raised, ret |-> upd.ret,
                                ok |-> upd.raised = "none" /\ res.ret]
                   /\ day_log' =
                          IF day_log.day = today
                          THEN [day_log EXCEPT !.fetches = @ \o upd.fetches]
                          ELSE [day |-> today, fetches |-> upd.fetches]
    /\ clock' = clock + MinutesPerHour
    /\ hours_left' = hours_left - 1
    /\ UNCHANGED <<local_timezone, sensor_vars, step_vars,
                   tariff_vars,
                   sensor_key, range_vars>>

InitHourly ==
    /\ clock \in HourlyStartInstants
    /\ hours_left = MaxHours
    /\ local_timezone = REFERENCE_TZ
    /\ current_prices = <<>>
    /\ state = 0
    /\ state_available = FALSE
    /\ attributes = <<>>
    /\ cycle = NoCycle
    /\ day_log = NoDayLog
    /\ InitSensors
    /\ InitSteps
    /\ sensor_key = KEY_PVPC
    /\ InitRange
    /\ InitTariff

NextHourly == HourlyStep

SpecHourly == InitHourly /\ [][NextHourly]_vars

-----------------------------------------------------------------------------
(* A caller in either zone of the tests *)

\* TZ_TEST of the tests
TZ_TEST == "Canary"

InitZones ==
    /\ clock = MinutesPerDay + 21 * MinutesPerHour
    /\ hours_left = MaxHours
    /\ local_timezone \in {REFERENCE_TZ, TZ_TEST}
    /\ current_prices = <<>>
    /\ state = 0
    /\ state_available = FALSE
    /\ attributes = <<>>
    /\ cycle = NoCycle
    /\ day_log = NoDayLog
    /\ InitSensors
    /\ InitSteps
    /\ sensor_key = KEY_PVPC
    /\ InitRange
    /\ InitTariff

SpecZones == InitZones /\ [][Next]_vars

-----------------------------------------------------------------------------
(* The night from Sunday 2021-10-31 to Monday 2021-11-01, where the ISO week *)
(* changes, in both zones                                                   *)

InitWeekChange ==
    /\ clock = 2 * MinutesPerDay + 22 * MinutesPerHour
    /\ hours_left = MaxHours
    /\ local_timezone \in {REFERENCE_TZ, TZ_TEST}
    /\ current_prices = <<>>
    /\ state = 0
    /\ state_available = FALSE
    /\ attributes = <<>>
    /\ cycle = NoCycle
    /\ day_log = NoDayLog
    /\ InitSensors
    /\ InitSteps
    /\ sensor_key = KEY_PVPC
    /\ InitRange
    /\ InitTariff

SpecWeekChange == InitWeekChange /\ [][Next]_vars

-----------------------------------------------------------------------------
(* The evening of Friday 2021-10-29, a working day, and the first hour of  *)
(* the Saturday                                                            *)

\* 19:00 and 20:00 UTC of 2021-10-29: 21:00 and 22:00 in Madrid
WeekdayStartInstants == {h * MinutesPerHour : h \in {19, 20}}

InitWeekday ==
    /\ clock \in WeekdayStartInstants
    /\ hours_left = MaxHours
    /\ local_timezone = REFERENCE_TZ
    /\ current_prices = <<>>
    /\ state = 0
    /\ state_available = FALSE
    /\ attributes = <<>>
    /\ cycle = NoCycle
    /\ day_log = NoDayLog
    /\ InitSensors
    /\ InitSteps
    /\ sensor_key = KEY_PVPC
    /\ InitRange
    /\ InitTariff

SpecWeekday == InitWeekday /\ [][Next]_vars

-----------------------------------------------------------------------------
(* A caller that may stay away for most of a day *)

\* hours that the caller stays away: from 23:00 in Madrid on 2021-10-30 to
\* 20:00 on 2021-10-31
SleepHours == 22

\* 2021-11-01 00:00 UTC: the calendar of the model ends with 2021-11-01
LastInstant == 3 * MinutesPerDay

Sleep ==
    /\ hours_left > 0
    /\ clock + SleepHours * MinutesPerHour <= LastInstant
    /\ hours_left' = hours_left - 1
    /\ clock' = clock + SleepHours * MinutesPerHour
    /\ cycle' = NoCycle
    /\ UNCHANGED <<local_timezone, current_prices, state, state_available,
                   attributes, day_log, sensor_vars, step_vars,
                   tariff_vars,
                   sensor_key, range_vars>>

InitSparse ==
    /\ clock = MinutesPerDay + 21 * MinutesPerHour
    /\ hours_left = MaxHours
    /\ local_timezone = REFERENCE_TZ
    /\ current_prices = <<>>
    /\ state = 0
    /\ state_available = FALSE
    /\ attributes = <<>>
    /\ cycle = NoCycle
    /\ day_log = NoDayLog
    /\ InitSensors
    /\ InitSteps
    /\ sensor_key = KEY_PVPC
    /\ InitRange
    /\ InitTariff

NextSparse == UpdatePrices \/ ProcessState \/ Tick \/ Sleep

SpecSparse == InitSparse /\ [][NextSparse]_vars

-----------------------------------------------------------------------------
(* async_update_prices taken one await at a time: the call begins and      *)
(* awaits the GET of today, then the GET of the next day, and merges        *)

\* the first await returns and the prices of today are merged at once
today_settled_eager_merge(prev, u, o1, at, tz) ==
    LET today == DateOf(u.local_ref)
        got == download_pvpc_prices(today, o1, ProviderRevision(today, at), tz)
    IN  IF got.raised # "none" \/ got.prices = <<>>
        THEN [pc |-> "idle", cache |-> prev, prices |-> <<>>]
        ELSE IF IsEvening(u.local_ref)
        THEN [pc |-> "get_next_day", cache |-> DictUpdate(prev, got.prices),
              prices |-> got.prices]
        ELSE [pc |-> "idle", cache |-> DictUpdate(prev, got.prices),
              prices |-> <<>>]

\* the await of the GET of today returns: the call ends on an exception or
\* an empty download, goes on to the GET of the next day in the evening, or
\* merges
today_settled(prev, u, o1, at, tz) ==
    LET today == DateOf(u.local_ref)
        got == download_pvpc_prices(today, o1, ProviderRevision(today, at), tz)
    IN  IF got.raised # "none" \/ got.prices = <<>>
        THEN [pc |-> "idle", cache |-> prev, prices |-> <<>>]
        ELSE IF IsEvening(u.local_ref)
        THEN [pc |-> "get_next_day", cache |-> prev, prices |-> got.prices]
        ELSE [pc |-> "idle", cache |-> DictUpdate(prev, got.prices),
              prices |-> <<>>]

\* the await of the GET of the next day returns: the call ends on an
\* exception, or merges the prices of both days
next_day_settled(prev, u, o2, at, tz) ==
    LET next_day == DateOf(PlusMinutes(u.local_ref, MinutesPerDay))
        fut == download_pvpc_prices(next_day, o2,
                                    ProviderRevision(next_day, at), tz)
    IN  IF fut.raised # "none"
        THEN [pc |-> "idle", cache |-> prev, prices |-> <<>>]
        ELSE [pc |-> "idle",
              cache |-> DictUpdate(prev, DictUpdate(u.prices, fut.prices)),
              prices |-> <<>>]

BeginUpdate ==
    /\ pc = "idle"
    /\ \E in \in NowInputs :
            up' = [local_ref |->
                       astimezone(ensure_utc_time(NowIn(in[1], in[2])),
                                  REFERENCE_TZ),
                   prices |-> <<>>]
    /\ pc' = "get_today"
    /\ UNCHANGED <<clock, local_timezone, current_prices, state,
                   state_available, attributes, cycle, hours_left, day_log,
                   sensor_vars, tariff_vars,
                   sensor_key, range_vars>>

TodaySettles ==
    /\ pc = "get_today"
    /\ \E o1 \in Outcomes :
            LET res == today_settled(current_prices, up, o1, clock,
                                     local_timezone)
            IN  /\ pc' = res.pc
                /\ current_prices' = res.cache
                /\ up' = [up EXCEPT !.prices = res.prices]
    /\ UNCHANGED <<clock, local_timezone, state, state_available, attributes,
                   cycle, hours_left, day_log, sensor_vars, tariff_vars,
                   sensor_key, range_vars>>

NextDaySettles ==
    /\ pc = "get_next_day"
    /\ \E o2 \in Outcomes :
            LET res == next_day_settled(current_prices, up, o2, clock,
                                        local_timezone)
            IN  /\ pc' = res.pc
                /\ current_prices' = res.cache
                /\ up' = [up EXCEPT !.prices = res.prices]
    /\ UNCHANGED <<clock, local_timezone, state, state_available, attributes,
                   cycle, hours_left, day_log, sensor_vars, tariff_vars,
                   sensor_key, range_vars>>

\* the hour ends between two calls
TickIdle == pc = "idle" /\ Tick

InitBySteps ==
    /\ clock = MinutesPerDay + 17 * MinutesPerHour
    /\ hours_left = MaxHours
    /\ local_timezone = REFERENCE_TZ
    /\ current_prices = <<>>
    /\ state = 0
    /\ state_available = FALSE
    /\ attributes = <<>>
    /\ cycle = NoCycle
    /\ day_log = NoDayLog
    /\ InitSensors
    /\ InitSteps
    /\ sensor_key = KEY_PVPC
    /\ InitRange
    /\ InitTariff

NextBySteps ==
    BeginUpdate \/ TodaySettles \/ NextDaySettles \/ ProcessState \/ TickIdle

SpecBySteps == InitBySteps /\ [][NextBySteps]_vars

-----------------------------------------------------------------------------
(* Tariff periods, as pvpc_tariff.py computes them from its table of        *)
(* national holidays; a local time is a record [year, month, day, hour]     *)

HOURS_P2 == {8, 9, 14, 15, 16, 17, 22, 23}

HOURS_P2_CYM == {8, 9, 10, 15, 16, 17, 18, 23}

FirstTableYear == 2021

LastTableYear == 2025

\* the national holidays which are not already on a weekend, as <<month,
\* day>>, for each year of the table
NATIONAL_EXTRA_HOLIDAYS_FOR_P3_PERIOD ==
    [y \in FirstTableYear..LastTableYear |->
        CASE y = 2021 -> {<<1, 1>>, <<1, 6>>, <<4, 2>>, <<10, 12>>, <<11, 1>>,
                          <<12, 6>>, <<12, 8>>}
          [] y = 2022 -> {<<1, 6>>, <<4, 15>>, <<8, 15>>, <<10, 12>>,
                          <<11, 1>>, <<12, 6>>, <<12, 8>>}
          [] y = 2023 -> {<<1, 6>>, <<4, 7>>, <<5, 1>>, <<8, 15>>, <<10, 12>>,
                          <<11, 1>>, <<12, 6>>, <<12, 8>>, <<12, 25>>}
          [] y = 2024 -> {<<1, 1>>, <<3, 29>>, <<5, 1>>, <<8, 15>>, <<11, 1>>,
                          <<12, 6>>, <<12, 25>>}
          [] y = 2025 -> {<<1, 1>>, <<1, 6>>, <<4, 18>>, <<5, 1>>, <<8, 15>>,
                          <<12, 8>>, <<12, 25>>}]

IsLeapYear(y) == y % 4 = 0 /\ (y % 100 # 0 \/ y % 400 = 0)

DaysInMonth(y, m) ==
    IF m = 2 THEN (IF IsLeapYear(y) THEN 29 ELSE 28)
    ELSE IF m \in {4, 6, 9, 11} THEN 30 ELSE 31

\* days from 2021-01-01 to the date
DaysSince2021(y, m, d) ==
    LET before_year == 365 * (y - FirstTableYear)
                       + Cardinality({k \in FirstTableYear..(y - 1) :
                                         IsLeapYear(k)})
        before_month == <<0, 31, 59, 90, 120, 151, 181, 212, 243, 273, 304,
                          334>>[m]
                        + (IF m > 2 /\ IsLeapYear(y) THEN 1 ELSE 0)
    IN  before_year + before_month + (d - 1)

\* date.isoweekday() of a date of the calendar: 2021-01-01 is a Friday
date_isoweekday(y, m, d) == ((DaysSince2021(y, m, d) + 4) % 7) + 1

\* the valley lasts until 08:59
pvpc_tariff_period_key_valley_to_8(local_ts, zone_ceuta_melilla) ==
    IF local_ts.year \notin DOMAIN NATIONAL_EXTRA_HOLIDAYS_FOR_P3_PERIOD
    THEN "KeyError"
    ELSE LET national_holiday ==
                 <<local_ts.month, local_ts.day>>
                     \in NATIONAL_EXTRA_HOLIDAYS_FOR_P3_PERIOD[local_ts.year]
             weekday == date_isoweekday(local_ts.year, local_ts.month,
                                        local_ts.day)
         IN  IF national_holiday \/ weekday >= 6 \/ local_ts.hour <= 8
             THEN "P3"
             ELSE IF zone_ceuta_melilla /\ local_ts.hour \in HOURS_P2_CYM
             THEN "P2"
             ELSE IF ~zone_ceuta_melilla /\ local_ts.hour \in HOURS_P2
             THEN "P2"
             ELSE "P1"

\* _tariff_period_key of pvpc_tariff.py: the table is indexed by the year
\* of the day, which raises KeyError for a year the table does not have
pvpc_tariff_period_key(local_ts, zone_ceuta_melilla) ==
    IF local_ts.year \notin DOMAIN NATIONAL_EXTRA_HOLIDAYS_FOR_P3_PERIOD
    THEN "KeyError"
    ELSE LET national_holiday ==
                 <<local_ts.month, local_ts.day>>
                     \in NATIONAL_EXTRA_HOLIDAYS_FOR_P3_PERIOD[local_ts.year]
             weekday == date_isoweekday(local_ts.year, local_ts.month,
                                        local_ts.day)
         IN  IF national_holiday \/ weekday >= 6 \/ local_ts.hour < 8
             THEN "P3"
             ELSE IF zone_ceuta_melilla /\ local_ts.hour \in HOURS_P2_CYM
             THEN "P2"
             ELSE IF ~zone_ceuta_melilla /\ local_ts.hour \in HOURS_P2
             THEN "P2"
             ELSE "P1"

\* the date which is n days after 2021-01-01, as <<year, month, day>>
date_fromordinal(n) ==
    LET y == CHOOSE k \in FirstTableYear..(FirstTableYear + n \div 365) :
                 /\ DaysSince2021(k, 1, 1) <= n
                 /\ n < DaysSince2021(k + 1, 1, 1)
        m == CHOOSE k \in 1..12 :
                 /\ DaysSince2021(y, k, 1) <= n
                 /\ n < DaysSince2021(y, k, 1) + DaysInMonth(y, k)
    IN  <<y, m, n - DaysSince2021(y, m, 1) + 1>>

\* local_ts + timedelta(hours=delta): the wall clock moves on, whatever the
\* offset of the zone does
plus_hours(local_ts, delta) ==
    LET hours == 24 * DaysSince2021(local_ts.year, local_ts.month,
                                    local_ts.day) + local_ts.hour + delta
        ymd == date_fromordinal(hours \div 24)
    IN  [year |-> ymd[1], month |-> ymd[2], day |-> ymd[3],
         hour |-> hours % 24]

\* the walk counts from 0: the delta returned is one hour short
pvpc_tariff_current_and_next_periods_short(local_ts, zone_ceuta_melilla) ==
    LET current_period == pvpc_tariff_period_key(local_ts, zone_ceuta_melilla)
        PeriodAt(delta) ==
            pvpc_tariff_period_key(plus_hours(local_ts, delta),
                                   zone_ceuta_melilla)
        delta == CHOOSE k \in 1..WalkLimit :
                    /\ PeriodAt(k) # current_period
                    /\ \A j \in 1..(k - 1) : PeriodAt(j) = current_period
    IN  IF current_period = "KeyError" \/ PeriodAt(delta) = "KeyError"
        THEN [raised |-> "KeyError", current |-> "none", next |-> "none",
              delta |-> 0]
        ELSE [raised |-> "none", current |-> current_period,
              next |-> PeriodAt(delta), delta |-> delta - 1]

\* get_current_and_next_tariff_periods of pvpc_tariff.py: the while loop
\* stops at the first delta, in hours, at which the period differs from the
\* current one; a KeyError of _tariff_period_key, at local_ts or at an hour
\* of the walk, leaves the call
pvpc_tariff_current_and_next_periods(local_ts, zone_ceuta_melilla) ==
    LET current_period == pvpc_tariff_period_key(local_ts, zone_ceuta_melilla)
        PeriodAt(delta) ==
            pvpc_tariff_period_key(plus_hours(local_ts, delta),
                                   zone_ceuta_melilla)
        delta == CHOOSE k \in 1..WalkLimit :
                    /\ PeriodAt(k) # current_period
                    /\ \A j \in 1..(k - 1) : PeriodAt(j) = current_period
    IN  IF current_period = "KeyError" \/ PeriodAt(delta) = "KeyError"
        THEN [raised |-> "KeyError", current |-> "none", next |-> "none",
              delta |-> 0]
        ELSE [raised |-> "none", current |-> current_period,
              next |-> PeriodAt(delta), delta |-> delta]

\* years after the last of the table whose days are asked too
YearsAfterTable == 1

\* every day of the years of the table and of the years after it
TariffDates ==
    {ymd \in (FirstTableYear..(LastTableYear + YearsAfterTable))
              \X (1..12) \X (1..31) : ymd[3] <= DaysInMonth(ymd[1], ymd[2])}

TariffPeriodKey ==
    /\ tariff_period = "none"
    /\ tariff_period' = pvpc_tariff_period_key(tariff_in, tariff_in.zone)
    /\ UNCHANGED <<clock, local_timezone, current_prices, state,
                   state_available, attributes, cycle, hours_left, day_log,
                   sensor_vars, step_vars, tariff_in,
                   sensor_key, range_vars>>

InitTariffInputs ==
    /\ clock = 0
    /\ hours_left = 0
    /\ local_timezone = REFERENCE_TZ
    /\ current_prices = <<>>
    /\ state = 0
    /\ state_available = FALSE
    /\ attributes = <<>>
    /\ cycle = NoCycle
    /\ day_log = NoDayLog
    /\ InitSensors
    /\ InitSteps
    /\ sensor_key = KEY_PVPC
    /\ InitRange
    /\ \E ymd \in TariffDates, h \in 0..23, z \in BOOLEAN :
            tariff_in = [year |-> ymd[1], month |-> ymd[2], day |-> ymd[3],
                         hour |-> h, zone |-> z]
    /\ tariff_period = "none"

NextTariff == TariffPeriodKey

SpecTariff == InitTariffInputs /\ [][NextTariff]_vars

\* no periods asked yet
NoPeriods == [raised |-> "none", current |-> "none", next |-> "none", delta |-> 0]

CurrentAndNextPeriods ==
    /\ tariff_period = NoPeriods
    /\ tariff_period' =
           pvpc_tariff_current_and_next_periods(tariff_in, tariff_in.zone)
    /\ UNCHANGED <<clock, local_timezone, current_prices, state,
                   state_available, attributes, cycle, hours_left, day_log,
                   sensor_vars, step_vars, tariff_in,
                   sensor_key, range_vars>>

InitPeriodsInputs ==
    /\ clock = 0
    /\ hours_left = 0
    /\ local_timezone = REFERENCE_TZ
    /\ current_prices = <<>>
    /\ state = 0
    /\ state_available = FALSE
    /\ attributes = <<>>
    /\ cycle = NoCycle
    /\ day_log = NoDayLog
    /\ InitSensors
    /\ InitSteps
    /\ sensor_key = KEY_PVPC
    /\ InitRange
    /\ \E ymd \in TariffDates, h \in 0..23, z \in BOOLEAN :
            tariff_in = [year |-> ymd[1], month |-> ymd[2], day |-> ymd[3],
                         hour |-> h, zone |-> z]
    /\ tariff_period = NoPeriods

NextPeriods == CurrentAndNextPeriods

SpecPeriods == InitPeriodsInputs /\ [][NextPeriods]_vars

-----------------------------------------------------------------------------
(* The hourly price attributes of prices.py *)

\* _split_today_tomorrow_prices
split_today_tomorrow_prices(d, utc_time, timezone) ==
    LET local_time == astimezone(utc_time, timezone)
        IsTomorrow(e) ==
            is_tomorrow_price(astimezone(UtcDatetime(e.ts), timezone),
                              local_time)
        IsToday(e) == ~IsTomorrow(e)
    IN  [today |-> SelectSeq(d, IsToday), tomorrow |-> SelectSeq(d, IsTomorrow)]

\* _make_price_tag_attributes: entry i is stored under prefix + HH + "h", or
\* under that key with "_d" appended when the key is already in the
\* attributes; of the entries stored under one key the last one stays
make_price_tag_attributes(prices, timezone, tomorrow) ==
    LET n == Len(prices)
        prefix == IF tomorrow THEN "price_next_day_" ELSE "price_"
        tag == AsList([i \in 1..n |->
                   prefix \o Hour02d(LocalHourOf(prices[i].ts, timezone))
                          \o "h"])
        attr_key == AsList([i \in 1..n |->
                        IF \E j \in 1..(i - 1) : tag[j] = tag[i]
                        THEN tag[i] \o "_d" ELSE tag[i]])
        Stored(k) == {i \in 1..n : attr_key[i] = k}
    IN  [k \in {attr_key[i] : i \in 1..n} |-> prices[SetMax(Stored(k))].price]

\* a stable sort from the lowest price whatever the sign
SortedBySign_lowest_first(d, sign) ==
    LET n == Len(d)
        rank == AsList([i \in 1..n |->
                    Cardinality({j \in 1..n :
                        \/ d[j].price < d[i].price
                        \/ d[j].price = d[i].price /\ j <= i})])
    IN  AsList([r \in 1..n |-> d[CHOOSE i \in 1..n : rank[i] = r]])

\* dict(sorted(d.items(), key=lambda x: sign * x[1])): a stable sort
SortedBySign(d, sign) ==
    LET n == Len(d)
        rank == AsList([i \in 1..n |->
                    Cardinality({j \in 1..n :
                        \/ sign * d[j].price < sign * d[i].price
                        \/ d[j].price = d[i].price /\ j <= i})])
    IN  AsList([r \in 1..n |-> d[CHOOSE i \in 1..n : rank[i] = r]])

\* 1 unless the key is that of the injection price, whose best price is the
\* highest
sign_is_best(key) == IF key # KEY_INJECTION THEN 1 ELSE 0 - 1

\* every later price counts as a better one
better_prices_ahead_any_price(key, current_price, d, utc_time) ==
    LET IsAhead(e) == e.ts > Instant(utc_time)
    IN  SelectSeq(d, IsAhead)

\* the list better_prices_ahead of _make_price_stats_attributes
better_prices_ahead(key, current_price, d, utc_time) ==
    LET IsBetterAhead(e) ==
            /\ e.ts > Instant(utc_time)
            /\ e.price * sign_is_best(key) < current_price * sign_is_best(key)
    IN  SelectSeq(d, IsBetterAhead)

\* the extremes are those of the first half of the window
price_extremes_of_half(d) ==
    [max_price |-> SetMax({d[i].price : i \in 1..((Len(d) + 1) \div 2)}),
     min_price |-> SetMin({d[i].price : i \in 1..((Len(d) + 1) \div 2)})]

\* max(current_prices.values()) and min(current_prices.values())
price_extremes(d) ==
    [max_price |-> SetMax(Values(d)), min_price |-> SetMin(Values(d))]

\* _make_price_stats_attributes on the prices d of a window
make_price_stats_attributes(key, current_price, d, utc_time, timezone) ==
    LET now_ts == Instant(utc_time)
        prices_sorted == SortedBySign(d, sign_is_best(key))
        better == better_prices_ahead(key, current_price, d, utc_time)
        a1 == IF better = <<>> THEN <<>>
              ELSE [next_better_price |-> better[1].price,
                    hours_to_better_price |->
                        (better[1].ts - now_ts) \div MinutesPerHour,
                    num_better_prices_ahead |-> Len(better)]
        At(i) == prices_sorted[i].price = current_price
        a2 == IF \E i \in 1..Len(d) : At(i)
              THEN Put(a1, "price_position", SetMin({i \in 1..Len(d) : At(i)}))
              ELSE a1
        max_price == price_extremes(d).max_price
        min_price == price_extremes(d).min_price
        a3 == IF max_price = min_price THEN a2
              ELSE Put(a2, "price_ratio",
                       Round2(current_price - min_price, max_price - min_price))
        first_price_at == LocalHourOf(prices_sorted[1].ts, timezone)
        last_price_at == LocalHourOf(prices_sorted[Len(d)].ts, timezone)
        FromNow(e) == e.ts >= now_ts
        ahead == SelectSeq(prices_sorted, FromNow)
    IN  [max_price |-> max_price,
         max_price_at |->
             IF sign_is_best(key) = 1 THEN last_price_at ELSE first_price_at,
         min_price |-> min_price,
         min_price_at |->
             IF sign_is_best(key) = 1 THEN first_price_at ELSE last_price_at,
         next_best_at |->
             [i \in 1..Len(ahead) |-> LocalHourOf(ahead[i].ts, timezone)]]
        @@ a3

\* {f"{key} (next day)": value for key, value in attrs.items()}
NextDayKeys(attrs) ==
    [k \in {key \o " (next day)" : key \in DOMAIN attrs} |->
        attrs[CHOOSE key \in DOMAIN attrs : key \o " (next day)" = k]]

\* make_price_sensor_attributes: the series has the key utc_time
make_price_sensor_attributes(key, d, utc_time, timezone) ==
    LET current_price == Get(d, Instant(utc_time))
        split == split_today_tomorrow_prices(d, utc_time, timezone)
        price_attrs ==
            make_price_stats_attributes(key, current_price, split.today,
                                        utc_time, timezone)
        price_tags == make_price_tag_attributes(split.today, timezone, FALSE)
    IN  IF split.tomorrow = <<>> THEN price_tags @@ price_attrs
        ELSE LET tomorrow_prices ==
                     NextDayKeys(make_price_stats_attributes(
                         key, current_price, split.tomorrow, utc_time,
                         timezone))
                 tomorrow_price_tags ==
                     make_price_tag_attributes(split.tomorrow, timezone, TRUE)
             IN  (tomorrow_price_tags @@ price_tags)
                 @@ (tomorrow_prices @@ price_attrs)

\* shifts of the daily pattern of the prices of the series given
PriceShifts == {0, 4, 5}

\* the series of a day, or of a day and the next one whole or pruned at the
\* midnight of the next one, as the downloads leave it in a zone; the daily
\* pattern of the prices is shifted, and the prices of the first of two days
\* are the revised ones
SeriesGiven(day, kind, shift, tz) ==
    LET one == extract_pvpc_data(day, 0, tz)
        two == one \o extract_pvpc_data(day + 1, 0, tz)
        Priced(d, rev) ==
            [i \in 1..Len(d) |->
                [ts |-> d[i].ts,
                 price |-> 100 + 3 * ((shift + 7 * i) % 11)
                           + (IF i <= Len(one) THEN rev ELSE 0)]]
        next_midnight ==
            astimezone([wall |-> (day + 1) * MinutesPerDay,
                        tz |-> REFERENCE_TZ, fold |-> 0], UTC_TZ)
    IN  IF kind = "day" THEN Priced(one, 0)
        ELSE IF kind = "two_days" THEN Priced(two, 1)
        ELSE Pruned(Priced(two, 1), next_midnight, tz)

MakePriceSensorAttributes ==
    /\ cycle.op # "attributes"
    /\ attributes' = make_price_sensor_attributes(sensor_key, current_prices,
                                                  UtcDatetime(clock),
                                                  local_timezone)
    /\ cycle' = [op |-> "attributes", fetches |-> <<>>, raised |-> "none",
                 ret |-> <<>>, ok |-> TRUE]
    /\ UNCHANGED <<clock, local_timezone, current_prices, state,
                   state_available, hours_left, day_log, sensor_vars,
                   step_vars, tariff_vars, sensor_key, range_vars>>

InitPricesInputs ==
    /\ hours_left = 0
    /\ local_timezone \in {REFERENCE_TZ, TZ_TEST}
    /\ \E day \in 1..2, kind \in {"day", "two_days", "pruned"},
          shift \in PriceShifts :
            current_prices = SeriesGiven(day, kind, shift, local_timezone)
    /\ clock \in Keys(current_prices)
    /\ sensor_key \in {KEY_PVPC, KEY_INJECTION}
    /\ InitRange
    /\ state = 0
    /\ state_available = FALSE
    /\ attributes = <<>>
    /\ cycle = NoCycle
    /\ day_log = NoDayLog
    /\ InitSensors
    /\ pc = "idle"
    /\ up = NoUp
    /\ InitTariff

NextPrices == MakePriceSensorAttributes

SpecPrices == InitPricesInputs /\ [][NextPrices]_vars

-----------------------------------------------------------------------------
(* The attributes of prices.py on the series the update cycles build *)

\* make_price_sensor_attributes on the series of the object, when it holds
\* the price of the hour in course
MakeAttributesOfSeries ==
    /\ clock \in Keys(current_prices)
    /\ MakePriceSensorAttributes

\* async_update_prices at the hour in course with the file of today answered;
\* the GET of the next day, if made, is answered or times out
UpdateAnswered ==
    /\ \E o2 \in {"ok", "timeout"} :
            LET res == async_update_prices(current_prices, NowIn("UTC", 0),
                                           "ok", o2, clock, local_timezone)
            IN  /\ current_prices' = res.cache
                /\ cycle' = [op |-> "update", fetches |-> res.fetches,
                             raised |-> res.raised, ret |-> res.ret,
                             ok |-> FALSE]
    /\ UNCHANGED <<clock, local_timezone, state, state_available, attributes,
                   hours_left, day_log, sensor_vars, step_vars, tariff_vars,
                   sensor_key, range_vars>>

InitCycles ==
    /\ clock \in StartInstants
    /\ hours_left = MaxHours
    /\ local_timezone = REFERENCE_TZ
    /\ current_prices = <<>>
    /\ state = 0
    /\ state_available = FALSE
    /\ attributes = <<>>
    /\ cycle = NoCycle
    /\ day_log = NoDayLog
    /\ InitSensors
    /\ InitSteps
    /\ sensor_key \in {KEY_PVPC, KEY_INJECTION}
    /\ InitRange
    /\ InitTariff

NextCycles == UpdateAnswered \/ ProcessState \/ MakeAttributesOfSeries \/ Tick

SpecCycles == InitCycles /\ [][NextCycles]_vars

-----------------------------------------------------------------------------
(* The coordinator of several indicators and its active set *)

\* what the GETs of one indicator come to in a cycle
SensorOutcomes == {"ok", "timeout", "client_error", "http_401"}

\* the fetches the scheduler asks for an indicator: none when the series
\* holds enough, else today unless the earliest point is of today, and the
\* next day from 20:00
SchedulerPlan(series, local_ref) ==
    LET n == Len(series)
        hour == HourOf(local_ref)
        day == DateOf(local_ref)
        DayOfPoint(i) ==
            DateOf(astimezone(UtcDatetime(series[i].ts), REFERENCE_TZ))
    IN  IF hour >= 20 /\ n > 30 THEN <<>>
        ELSE IF hour < 20 /\ n > 20 /\ DayOfPoint(n - 12) = day THEN <<>>
        ELSE (IF n > 0 /\ DayOfPoint(1) = day THEN <<>>
              ELSE <<Fetch("today", day, "ok")>>)
             \o (IF hour >= 20 THEN <<Fetch("next_day", day + 1, "ok")>>
                 ELSE <<>>)

\* the series of an indicator after its fetches: the entries of every fetch
\* that is answered are merged, a failed fetch leaves the series as it was
SensorMerge(series, plan, outcome, at) ==
    LET Data(i) ==
            IF i <= Len(plan) /\ outcome = "ok"
            THEN extract_pvpc_data(plan[i].day,
                                   ProviderRevision(plan[i].day, at),
                                   REFERENCE_TZ)
            ELSE <<>>
    IN  DictUpdate(DictUpdate(series, Data(1)), Data(2))

\* the fetches of a cycle: those of the plan of every active indicator
IssuedFetches(sens, act, local_ref, outs) ==
    UNION {{[key |-> k,
             kind |-> SchedulerPlan(sens[k], local_ref)[i].kind,
             day |-> SchedulerPlan(sens[k], local_ref)[i].day,
             outcome |-> outs[k]] :
                i \in DOMAIN SchedulerPlan(sens[k], local_ref)} : k \in act}

\* a cycle that gives up when a fetch fails: nothing is merged
update_all_abort_on_failure(sens, act, now, outs, at) ==
    LET local_ref == astimezone(ensure_utc_time(now), REFERENCE_TZ)
        issued == IssuedFetches(sens, act, local_ref, outs)
        failed == \E f \in issued : f.outcome # "ok"
    IN  [sensors |-> [k \in SensorKeys |->
                         IF k \in act /\ ~failed
                         THEN SensorMerge(sens[k],
                                          SchedulerPlan(sens[k], local_ref),
                                          outs[k], at)
                         ELSE sens[k]],
         fetches |-> issued,
         raised |-> IF \E f \in issued : f.outcome = "http_401"
                    THEN "BadApiTokenAuthError" ELSE "none"]

\* a cycle of the coordinator: every active indicator is updated on its own,
\* and the authentication failure is raised once all of them have settled
update_all(sens, act, now, outs, at) ==
    LET local_ref == astimezone(ensure_utc_time(now), REFERENCE_TZ)
        issued == IssuedFetches(sens, act, local_ref, outs)
    IN  [sensors |-> [k \in SensorKeys |->
                         IF k \in act
                         THEN SensorMerge(sens[k],
                                          SchedulerPlan(sens[k], local_ref),
                                          outs[k], at)
                         ELSE sens[k]],
         fetches |-> issued,
         raised |-> IF \E f \in issued : f.outcome = "http_401"
                    THEN "BadApiTokenAuthError" ELSE "none"]

\* the active set changed by a switch that ignores what is asked
update_active_sensors_toggle(sens, act, key, enabled) ==
    [active |-> IF key \in act THEN act \ {key} ELSE act \cup {key},
     sensors |-> sens]

\* a removal that discards the series of the indicator
update_active_sensors_drop_series(sens, act, key, enabled) ==
    [active |-> IF enabled THEN act \cup {key} ELSE act \ {key},
     sensors |-> IF enabled THEN sens ELSE [sens EXCEPT ![key] = <<>>]]

\* update_active_sensors(key, enabled): the indicator joins or leaves the
\* active set, its series stays
update_active_sensors(sens, act, key, enabled) ==
    [active |-> IF enabled THEN act \cup {key} ELSE act \ {key},
     sensors |-> sens]

UpdateAll ==
    /\ \E outs \in [SensorKeys -> SensorOutcomes] :
            LET res == update_all(sensors, active_sensors, UtcDatetime(clock),
                                  outs, clock)
            IN  /\ sensors' = res.sensors
                /\ all_cycle' = [op |-> "update", fetches |-> res.fetches,
                                 raised |-> res.raised, key |-> "none",
                                 enabled |-> FALSE]
    /\ UNCHANGED <<clock, local_timezone, current_prices, state,
                   state_available, attributes, cycle, hours_left, day_log,
                   active_sensors, step_vars,
                   tariff_vars,
                   sensor_key, range_vars>>

UpdateActiveSensors ==
    /\ \E key \in SensorKeys, enabled \in BOOLEAN :
            LET res == update_active_sensors(sensors, active_sensors, key,
                                             enabled)
            IN  /\ active_sensors' = res.active
                /\ sensors' = res.sensors
                /\ all_cycle' = [op |-> "active", fetches |-> {},
                                 raised |-> "none", key |-> key,
                                 enabled |-> enabled]
    /\ UNCHANGED <<clock, local_timezone, current_prices, state,
                   state_available, attributes, cycle, hours_left, day_log,
                   step_vars, tariff_vars,
                   sensor_key, range_vars>>

TickSensors ==
    /\ hours_left > 0
    /\ hours_left' = hours_left - 1
    /\ clock' = clock + MinutesPerHour
    /\ all_cycle' = NoAllCycle
    /\ UNCHANGED <<local_timezone, current_prices, state, state_available,
                   attributes, cycle, day_log, active_sensors, sensors,
                   step_vars, tariff_vars,
                   sensor_key, range_vars>>

InitCoordinator ==
    /\ clock = MinutesPerDay + 17 * MinutesPerHour
    /\ hours_left = MaxHours
    /\ local_timezone = REFERENCE_TZ
    /\ current_prices = <<>>
    /\ state = 0
    /\ state_available = FALSE
    /\ attributes = <<>>
    /\ cycle = NoCycle
    /\ day_log = NoDayLog
    /\ InitSensors
    /\ InitSteps
    /\ sensor_key = KEY_PVPC
    /\ InitRange
    /\ InitTariff

NextCoordinator == UpdateAll \/ UpdateActiveSensors \/ TickSensors

SpecCoordinator == InitCoordinator /\ [][NextCoordinator]_vars

-----------------------------------------------------------------------------
(* The construction of the object *)

\* the tariffs a caller passes: none, the legacy ones, the current ones and
\* two that are neither
TariffArgs ==
    {"None", "normal", "discrimination", "electric_car", "2.0TD",
     "2.0TD (Ceuta/Melilla)", "2.0A", "3.0TD"}

\* no object yet
NotConstructed ==
    [constructed |-> FALSE, raised |-> "none", tariff |-> "None",
     tariff_old |-> "None", session |-> "None",
     with_initial_session |-> FALSE]

\* PVPCData(tariff, websession, local_timezone, zone_ceuta_melilla)
Construct ==
    /\ ~instance.constructed
    /\ instance' = PVPCData_init(new_args)
    /\ state' = 0
    /\ state_available' = FALSE
    /\ attributes' = <<>>
    /\ current_prices' = <<>>
    /\ UNCHANGED <<clock, local_timezone, cycle, hours_left, day_log,
                   sensor_vars, step_vars, tariff_vars, sensor_key, new_args,
                   websessions, rng, queue, workers, requested>>

InitConstruct ==
    /\ clock = MinutesPerDay + 17 * MinutesPerHour
    /\ hours_left = 0
    /\ local_timezone \in {REFERENCE_TZ, TZ_TEST}
    /\ current_prices = <<>>
    /\ state = 0
    /\ state_available = FALSE
    /\ attributes = <<>>
    /\ cycle = NoCycle
    /\ day_log = NoDayLog
    /\ InitSensors
    /\ InitSteps
    /\ sensor_key = KEY_PVPC
    /\ InitTariff
    /\ new_args \in [tariff : TariffArgs, zone_ceuta_melilla : BOOLEAN,
                     websession : {"None", "caller"}]
    /\ instance = NotConstructed
    /\ websessions =
           [caller |-> IF new_args.websession = "caller" THEN "open" ELSE "none",
            temporal |-> "none"]
    /\ rng = NoRange
    /\ queue = [items |-> <<>>, unfinished |-> 0]
    /\ workers = <<>>
    /\ requested = <<>>

NextConstruct == Construct

SpecConstruct == InitConstruct /\ [][NextConstruct]_vars

-----------------------------------------------------------------------------
(* The download of a range of days *)

\* the most worker tasks of a range download
MaxWorkers == 3

\* the naive datetimes a caller passes as start and end, as wall minutes:
\* 2021-10-30 03:00 and 23:30, 2021-10-31 12:00 and 2021-11-01 20:00
RangeTimes ==
    {MinutesPerDay + 3 * MinutesPerHour,
     MinutesPerDay + 23 * MinutesPerHour + 30,
     2 * MinutesPerDay + 12 * MinutesPerHour,
     3 * MinutesPerDay + 20 * MinutesPerHour}

\* what the GET of a day comes to in a range download: the file, a timeout,
\* or a file with an empty list of hours
RangeOutcomes == {"ok", "timeout", "empty_list"}

\* what a range download leaves alone
no_range_vars ==
    <<clock, local_timezone, current_prices, state, state_available,
      attributes, cycle, hours_left, day_log, sensor_vars, step_vars,
      tariff_vars, sensor_key, new_args>>

\* _adjust_dates(ts): the wall time of ts read in the zone of the object, in
\* the reference zone and in UTC
adjust_dates(ts_wall, timezone) ==
    LET ts_ref == astimezone([wall |-> ts_wall, tz |-> timezone, fold |-> 0],
                             REFERENCE_TZ)
    IN  [utc |-> astimezone(ts_ref, UTC_TZ), ref |-> ts_ref]

\* [start_local.date() + timedelta(days=i) for i in range(delta.days + 1)]
days_to_download(start_local, end_local) ==
    AsList([i \in 1..(DateOf(end_local) - DateOf(start_local) + 1) |->
               DateOf(start_local) + i - 1])

\* a worker task just made by asyncio.create_task; a task cancelled before
\* its first step never enters the coroutine
NewWorker(must_cancel) ==
    [pc |-> "created", must_cancel |-> must_cancel, task |-> <<>>,
     exc |-> "none", downloaded_prices |-> <<>>]

\* _download_worker arriving at "day = await queue.get()" holding the list
\* downloaded: it takes the first day of the queue and sends its GET, or it
\* waits on the empty queue
WorkerAtGet(wk, q, downloaded) ==
    IF q.items # <<>>
    THEN [worker |-> [wk EXCEPT !.pc = "downloading",
                                !.task = <<Head(q.items)>>,
                                !.downloaded_prices = downloaded],
          queue |-> [q EXCEPT !.items = Tail(q.items)],
          gets |-> <<Head(q.items)>>]
    ELSE [worker |-> [wk EXCEPT !.pc = "waiting", !.task = <<>>,
                                !.downloaded_prices = downloaded],
          queue |-> q,
          gets |-> <<>>]

\* sorted(..., key=lambda x: x[0]) of the lists the workers returned, in which
\* a day is once at most
SortedByDay(lists) ==
    LET entries == UNION {{lists[w][i] : i \in 1..Len(lists[w])} :
                             w \in 1..Len(lists)}
    IN  AsList([r \in 1..Cardinality(entries) |->
                   CHOOSE e \in entries :
                       Cardinality({f \in entries : f.day < e.day}) = r - 1])

\* the dict comprehension over data_days: the hours within [start_utc,
\* end_utc] of every day, in the order of the days
RangePrices(data_days, start_utc, end_utc) ==
    LET InRange(e) == start_utc <= e.ts /\ e.ts <= end_utc
        merged[k \in 0..Len(data_days)] ==
            IF k = 0 THEN <<>>
            ELSE DictUpdate(merged[k - 1],
                            SelectSeq(data_days[k].prices, InRange))
    IN  merged[Len(data_days)]

\* async_download_prices_for_range(start, end, concurrency_calls) up to its
\* first suspension: the days, _ensure_session, the worker tasks, the queue
\* filled and queue.join(), which suspends the call unless the queue is
\* empty; with no day to download the call goes on, cancels the tasks, none
\* of which has started, and suspends in gather
RangeCall ==
    /\ rng.pc = "idle"
    /\ instance.constructed
    /\ \E start \in RangeTimes, end \in RangeTimes, max_calls \in 1..MaxWorkers :
            LET s == adjust_dates(start, local_timezone)
                e == adjust_dates(end, local_timezone)
                days == days_to_download(s.ref, e.ref)
            IN  /\ rng' = [pc |-> IF days = <<>> THEN "gather" ELSE "join",
                           start_utc |-> Instant(s.utc),
                           end_utc |-> Instant(e.utc),
                           days |-> days, raised |-> "none", ret |-> <<>>]
                /\ queue' = [items |-> days, unfinished |-> Len(days)]
                /\ workers' = [w \in 1..max_calls |-> NewWorker(days = <<>>)]
    /\ instance' = IF instance.session = "None"
                   THEN [instance EXCEPT !.session = "temporal"]
                   ELSE instance
    /\ websessions' = IF instance.session = "None"
                      THEN [websessions EXCEPT !.temporal = "open"]
                      ELSE websessions
    /\ UNCHANGED <<requested, no_range_vars>>

\* the first step of a worker task, the tasks starting in the order of their
\* creation: it runs to its first queue.get()
WorkerStart ==
    /\ rng.pc = "join"
    /\ \E w \in DOMAIN workers :
            /\ workers[w].pc = "created"
            /\ ~workers[w].must_cancel
            /\ \A v \in 1..(w - 1) : workers[v].pc # "created"
            /\ LET at_get == WorkerAtGet(workers[w], queue, <<>>)
               IN  /\ workers' = [workers EXCEPT ![w] = at_get.worker]
                   /\ queue' = at_get.queue
                   /\ requested' = requested \o at_get.gets
    /\ UNCHANGED <<instance, websessions, rng, no_range_vars>>

\* the answer to the GET of a worker, when every task has had its first
\* step: an exception that _download_pvpc_prices does not catch ends the
\* task; otherwise queue.task_done(), the day appended unless its prices are
\* empty, and the next queue.get()
WorkerResponse ==
    /\ rng.pc = "join"
    /\ \A v \in DOMAIN workers : workers[v].pc # "created"
    /\ \E w \in DOMAIN workers, outcome \in RangeOutcomes :
            /\ workers[w].pc = "downloading"
            /\ LET day == workers[w].task[1]
                   got == download_pvpc_prices(day, outcome,
                                               ProviderRevision(day, clock),
                                               local_timezone)
                   done == [queue EXCEPT !.unfinished = @ - 1]
                   downloaded ==
                       IF got.prices = <<>> THEN workers[w].downloaded_prices
                       ELSE Append(workers[w].downloaded_prices,
                                   [day |-> day, prices |-> got.prices])
                   at_get == WorkerAtGet(workers[w], done, downloaded)
               IN  IF got.raised # "none"
                   THEN /\ workers' = [workers EXCEPT ![w].pc = "failed",
                                                      ![w].exc = got.raised]
                        /\ UNCHANGED <<queue, requested>>
                   ELSE /\ workers' = [workers EXCEPT ![w] = at_get.worker]
                        /\ queue' = at_get.queue
                        /\ requested' = requested \o at_get.gets
    /\ UNCHANGED <<instance, websessions, rng, no_range_vars>>

\* queue.join() returns when every day put has been marked done; the call
\* cancels every task that is not finished and suspends in gather
MainCancel ==
    /\ rng.pc = "join"
    /\ queue.unfinished = 0
    /\ rng' = [rng EXCEPT !.pc = "gather"]
    /\ workers' = [w \in DOMAIN workers |->
                      IF workers[w].pc = "failed" THEN workers[w]
                      ELSE [workers[w] EXCEPT !.must_cancel = TRUE]]
    /\ UNCHANGED <<instance, websessions, queue, requested, no_range_vars>>

\* CancelledError raised in a worker at its queue.get(): the except clause
\* returns the list downloaded
WorkerCancelled ==
    /\ \E w \in DOMAIN workers :
            /\ workers[w].pc = "waiting"
            /\ workers[w].must_cancel
            /\ workers' = [workers EXCEPT ![w].pc = "returned"]
    /\ UNCHANGED <<instance, websessions, rng, queue, requested, no_range_vars>>

\* a task cancelled before its first step: CancelledError is thrown into the
\* coroutine before its try block, and the task ends cancelled
WorkerCancelledUnstarted ==
    /\ \E w \in DOMAIN workers :
            /\ workers[w].pc = "created"
            /\ workers[w].must_cancel
            /\ workers' = [workers EXCEPT ![w].pc = "cancelled",
                                          ![w].exc = "CancelledError"]
    /\ UNCHANGED <<instance, websessions, rng, queue, requested, no_range_vars>>

\* gather(*worker_tasks, return_exceptions=True) returns the list or the
\* exception of every task; iterating an exception raises TypeError, which
\* leaves the call before _close_temporal_session; otherwise the lists are
\* sorted by day, the temporal session is closed and the prices returned
MainReturn ==
    /\ rng.pc = "gather"
    /\ \A w \in DOMAIN workers :
           workers[w].pc \in {"returned", "cancelled", "failed"}
    /\ IF \E w \in DOMAIN workers : workers[w].pc # "returned"
       THEN /\ rng' = [rng EXCEPT !.pc = "done", !.raised = "TypeError"]
            /\ UNCHANGED <<instance, websessions>>
       ELSE LET data_days ==
                    SortedByDay([w \in DOMAIN workers |->
                                    workers[w].downloaded_prices])
                temporal == /\ ~instance.with_initial_session
                            /\ instance.session # "None"
            IN  /\ rng' = [rng EXCEPT
                              !.pc = "done",
                              !.ret = RangePrices(data_days, rng.start_utc,
                                                  rng.end_utc)]
                /\ instance' = IF temporal
                               THEN [instance EXCEPT !.session = "None"]
                               ELSE instance
                /\ websessions' =
                       IF temporal
                       THEN [websessions EXCEPT ![instance.session] = "closed"]
                       ELSE websessions
    /\ UNCHANGED <<queue, workers, requested, no_range_vars>>

\* an object made with or without a web session, in one of the two zones,
\* on 2021-11-01 at 21:00 UTC
InitRangeDownload ==
    /\ clock = 3 * MinutesPerDay + 21 * MinutesPerHour
    /\ hours_left = 0
    /\ local_timezone \in {REFERENCE_TZ, TZ_TEST}
    /\ current_prices = <<>>
    /\ state = 0
    /\ state_available = FALSE
    /\ attributes = <<>>
    /\ cycle = NoCycle
    /\ day_log = NoDayLog
    /\ InitSensors
    /\ InitSteps
    /\ sensor_key = KEY_PVPC
    /\ InitTariff
    /\ \E websession \in {"None", "caller"} :
            new_args = [DefaultArgs EXCEPT !.websession = websession]
    /\ instance = PVPCData_init(new_args)
    /\ websessions =
           [caller |-> IF new_args.websession = "caller" THEN "open" ELSE "none",
            temporal |-> "none"]
    /\ rng = NoRange
    /\ queue = [items |-> <<>>, unfinished |-> 0]
    /\ workers = <<>>
    /\ requested = <<>>

NextRange ==
    \/ RangeCall
    \/ WorkerStart
    \/ WorkerResponse
    \/ MainCancel
    \/ WorkerCancelled
    \/ WorkerCancelledUnstarted
    \/ MainReturn

SpecRange == InitRangeDownload /\ [][NextRange]_vars

-----------------------------------------------------------------------------
(* The claims *)

\* the reference time of a cycle: every input of NowInputs lies in the hour
\* of the clock
RefLocal == astimezone(UtcDatetime(clock), REFERENCE_TZ)
RefHour == HourOf(RefLocal)
RefDate == DateOf(RefLocal)

\* local date of a key of the series
LocalDateOfKey(ts) == DateOf(astimezone(UtcDatetime(ts), local_timezone))

NextDayFetched(c) == \E i \in 1..Len(c.fetches) : c.fetches[i].kind = "next_day"

\* C1: in an update cycle before 20:00 local, with more than 20 points in the
\* series and the 13th-from-last point dated on the reference date, no fetch
\* is issued and the series is left unchanged.
C1_NoFetchBeforeEvening ==
    [][(/\ cycle'.op = "update"
        /\ RefHour < 20
        /\ Len(current_prices) > 20
        /\ LocalDateOfKey(current_prices[Len(current_prices) - 12].ts) = RefDate)
       => (cycle'.fetches = <<>> /\ current_prices' = current_prices)]_vars

\* C2: in an update cycle at 20:00 local or later, with more than 30 points in
\* the series, no fetch is issued.
C2_NoFetchWhenAllCached ==
    [][(cycle'.op = "update" /\ RefHour >= 20 /\ Len(current_prices) > 30)
       => cycle'.fetches = <<>>]_vars

\* C3: in an update cycle at 20:00 local or later, with the series holding
\* today's points (the earliest one dated today) and none of tomorrow, exactly
\* one fetch is issued, the one of the next day, and the merged series holds
\* at most 49 points.
C3_OnlyNextDayFetched ==
    [][(/\ cycle'.op = "update"
        /\ RefHour >= 20
        /\ current_prices # <<>>
        /\ LocalDateOfKey(current_prices[1].ts) = RefDate
        /\ \A i \in 1..Len(current_prices) :
               LocalDateOfKey(current_prices[i].ts) <= RefDate)
       => (/\ Len(cycle'.fetches) = 1
           /\ cycle'.fetches[1].kind = "next_day"
           /\ Len(current_prices') <= 49)]_vars

\* C4, as stated: an update cycle issues a fetch for the next day exactly when
\* its local hour is 20:00 or later, whatever came of the fetch of today.
C4_NextDayFetchWhateverToday ==
    cycle.op = "update" => (NextDayFetched(cycle) <=> RefHour >= 20)

\* C4, amended: an update cycle issues a fetch for the next day exactly when
\* its local hour is 20:00 or later and the fetch of today returned prices.
C4_NextDayFetchAfterToday ==
    cycle.op = "update" =>
        (NextDayFetched(cycle)
            <=> (RefHour >= 20 /\ cycle.fetches[1].outcome = "ok"))

\* an evening cycle that fetched today and the next day
C4_Witness ==
    /\ cycle.op = "update"
    /\ RefHour >= 20
    /\ Len(cycle.fetches) = 2
    /\ cycle.fetches[2].kind = "next_day"

\* C5: when every fetch of an update cycle fails or returns nothing, the
\* series after the cycle is the series before it and the cycle returns no
\* prices.
C5_FailedCycleKeepsSeries ==
    [][(/\ cycle'.op = "update"
        /\ \A i \in 1..Len(cycle'.fetches) : cycle'.fetches[i].outcome # "ok")
       => (current_prices' = current_prices /\ cycle'.ret = <<>>)]_vars

\* a cycle whose fetch failed, on a series that holds prices
C5_Witness ==
    /\ cycle.op = "update"
    /\ cycle.fetches # <<>>
    /\ \A i \in 1..Len(cycle.fetches) : cycle.fetches[i].outcome # "ok"
    /\ current_prices # <<>>

\* C6: a fetch that ends in a timeout, a transport error, an HTTP error status
\* or a malformed payload never raises out of the update cycle.
C6_UpdateNeverRaises ==
    cycle.op = "update" => cycle.raised = "none"

\* C7: when a fetch is answered with HTTP 401 the update raises
\* BadApiTokenAuthError to the caller.
C7_Http401Raises ==
    (/\ cycle.op = "update"
     /\ \E i \in 1..Len(cycle.fetches) : cycle.fetches[i].outcome = "http_401")
    => cycle.raised = "BadApiTokenAuthError"

\* C8: process_state_and_attributes at a reference time whose UTC hour slot is
\* not a key of the series returns False and marks the state unavailable.
C8_MissingSlotUnavailable ==
    [][(cycle'.op = "process" /\ clock \notin Keys(current_prices))
       => (~cycle'.ok /\ ~state_available')]_vars

\* a lookup that fails on a series that holds other hours
C8_Witness ==
    /\ cycle.op = "process"
    /\ ~cycle.ok
    /\ ~state_available
    /\ current_prices # <<>>
    /\ clock \notin Keys(current_prices)

\* C9: process_state_and_attributes at a reference time in an hour whose slot
\* an update cycle merged into the series returns True and publishes the
\* merged price as state.
C9_MergedSlotPublished ==
    [][(cycle'.op = "process" /\ clock \in Keys(current_prices))
       => (cycle'.ok /\ state' = Get(current_prices, clock))]_vars

\* the key of the reference hour in the attributes
RefPriceKey ==
    "price_"
    \o Hour02d(HourOf(astimezone(UtcDatetime(clock), local_timezone))) \o "h"

\* C10, as stated: whenever process_state_and_attributes returns True at a
\* reference time of local hour HH, the attribute price_HHh equals the state.
C10_PriceOfHourIsState ==
    (cycle.op = "process" /\ cycle.ok) => attributes[RefPriceKey] = state

\* C10, amended: whenever process_state_and_attributes returns True at a
\* reference time of local hour HH, the attribute price_HHh is the price of
\* the first entry of the series, in its order, of local hour HH that is not
\* of the next day; it equals the state when that entry is the reference slot.
C10_PriceOfHourIsFirstOfHour ==
    (cycle.op = "process" /\ cycle.ok) =>
        LET local_time == astimezone(UtcDatetime(clock), local_timezone)
            OfHour(i) ==
                PriceTag(astimezone(UtcDatetime(current_prices[i].ts),
                                    local_timezone), local_time) = RefPriceKey
            first == SetMin({i \in 1..Len(current_prices) : OfHour(i)})
        IN  /\ attributes[RefPriceKey] = current_prices[first].price
            /\ current_prices[first].ts = clock
                   => attributes[RefPriceKey] = state

\* a lookup in the first of the two hours that read 02:00 on 2021-10-31, with
\* both in the series
C10_Witness ==
    /\ cycle.op = "process"
    /\ cycle.ok
    /\ clock = DstEnd - MinutesPerHour
    /\ DstEnd \in Keys(current_prices)
    /\ attributes[RefPriceKey] = state

\* the series holds prices of a local day
HasDay(d, day) == \E i \in 1..Len(d) : LocalDateOfKey(d[i].ts) = day

\* C11: with one update cycle per hour, in time order, and every fetch
\* answered with the complete data of its day, at most 2 fetches are issued in
\* a local day.
C11_TwoFetchesPerDay ==
    (\A i \in 1..Len(day_log.fetches) : day_log.fetches[i].outcome = "ok")
    => Len(day_log.fetches) <= 2

RefDateOfKey(ts) == DateOf(astimezone(UtcDatetime(ts), REFERENCE_TZ))

\* C13, as stated: after process_state_and_attributes prunes the series and
\* leaves it non-empty, the date of the earliest key in the local timezone is
\* the date of the reference time in that timezone.
C13_EarliestKeyOfLocalDay ==
    [][(/\ cycle'.op = "process"
        /\ current_prices' # current_prices
        /\ current_prices' # <<>>)
       => LocalDateOfKey(SetMin(Keys(current_prices')))
              = DateOf(astimezone(UtcDatetime(clock), local_timezone))]_vars

\* C13, amended: after process_state_and_attributes prunes the series and
\* leaves it non-empty, the earliest key is not before the midnight, in the
\* reference zone, of the day of the reference time, and its date in the
\* reference zone is that day when the series held a price of that day.
C13_EarliestKeyOfReferenceDay ==
    [][(/\ cycle'.op = "process"
        /\ current_prices' # current_prices
        /\ current_prices' # <<>>)
       => LET earliest == SetMin(Keys(current_prices'))
          IN  /\ earliest >= Instant([wall |-> RefDate * MinutesPerDay,
                                      tz |-> REFERENCE_TZ, fold |-> 0])
              /\ (\E k \in Keys(current_prices) : RefDateOfKey(k) = RefDate)
                     => RefDateOfKey(earliest) = RefDate]_vars

\* a pruning in the zone of the tests that keeps the last hour of the day
\* before
C13_Witness ==
    /\ cycle.op = "process"
    /\ local_timezone = TZ_TEST
    /\ Len(current_prices) = 26
    /\ LocalDateOfKey(SetMin(Keys(current_prices)))
           < DateOf(astimezone(UtcDatetime(clock), local_timezone))

\* C14: after any sequence of update cycles and process_state_and_attributes
\* calls in non-decreasing time order, not necessarily every hour, the series
\* never holds more than 49 points.
C14_AtMost49Points ==
    Len(current_prices) <= 49

\* C15: merging the fetched entries into the series gives, for every hour
\* slot, the fetched price if the slot was fetched and the previous price
\* otherwise, with one price per slot and no slot removed; merging the same
\* entries again leaves the series unchanged.
C15_MergeLastWriterWins ==
    [][(cycle'.op = "update" /\ cycle'.ret # <<>>)
       => LET fetched == cycle'.ret
          IN  /\ Keys(current_prices') = Keys(current_prices) \cup Keys(fetched)
              /\ Len(current_prices') = Cardinality(Keys(current_prices'))
              /\ \A k \in Keys(fetched) :
                     Get(current_prices', k) = Get(fetched, k)
              /\ \A k \in Keys(current_prices) \ Keys(fetched) :
                     Get(current_prices', k) = Get(current_prices, k)
              /\ DictUpdate(current_prices', fetched) = current_prices']_vars

\* a merge of the prices of 2021-10-31, fetched on that day, into a series
\* that holds those of the day before
C15_Witness ==
    /\ cycle.op = "update"
    /\ RefDate = 2
    /\ Len(cycle.ret) = NumHours(2)
    /\ Len(current_prices) > Len(cycle.ret)
    /\ HasDay(current_prices, 1)
    /\ \A k \in Keys(cycle.ret) : Get(current_prices, k) = Get(cycle.ret, k)

\* the entries that an answered fetch of a cycle at the clock brings
FetchedData(f) ==
    extract_pvpc_data(f.day, ProviderRevision(f.day, clock), REFERENCE_TZ)

\* C16: when the fetch of one indicator fails in a cycle (timeout, transport
\* error or authentication failure), the fetches of the other indicators are
\* issued and answered all the same, and their entries are merged into their
\* own series in that cycle.
C16_FailureIsolation ==
    [][(/\ all_cycle'.op = "update"
        /\ \E f \in all_cycle'.fetches : f.outcome # "ok")
       => (/\ \A k \in active_sensors :
                  sensors[k] = <<>> => \E g \in all_cycle'.fetches : g.key = k
           /\ \A g \in all_cycle'.fetches :
                  g.outcome = "ok"
                  => \A i \in 1..Len(FetchedData(g)) :
                         /\ FetchedData(g)[i].ts \in Keys(sensors'[g.key])
                         /\ Get(sensors'[g.key], FetchedData(g)[i].ts)
                                = FetchedData(g)[i].price)]_vars

\* a cycle in which the fetch of one indicator met an authentication failure
\* and the other indicator got its prices
C16_Witness ==
    /\ all_cycle.op = "update"
    /\ all_cycle.raised = "BadApiTokenAuthError"
    /\ \E f \in all_cycle.fetches, g \in all_cycle.fetches :
           /\ f.key # g.key
           /\ f.outcome = "http_401"
           /\ g.outcome = "ok"
           /\ sensors[f.key] = <<>>
           /\ sensors[g.key] # <<>>

\* C18: a cycle issues fetches only for the indicators of the active set, and
\* for every active indicator that has no prices; update_active_sensors
\* puts the indicator in the set or takes it out as asked, and asking again
\* for the same changes nothing.
C18_ActiveSetRulesFetches ==
    [][/\ all_cycle'.op = "update"
           => (/\ \A f \in all_cycle'.fetches : f.key \in active_sensors
               /\ \A k \in active_sensors :
                      sensors[k] = <<>>
                      => \E f \in all_cycle'.fetches : f.key = k)
       /\ all_cycle'.op = "active"
           => (/\ all_cycle'.key \in active_sensors' <=> all_cycle'.enabled
               /\ active_sensors' \ {all_cycle'.key}
                      = active_sensors \ {all_cycle'.key}
               /\ (all_cycle'.key \in active_sensors <=> all_cycle'.enabled)
                      => (/\ active_sensors' = active_sensors
                          /\ sensors' = sensors))]_vars

\* a cycle that fetched for the active indicator only, the other one being
\* out of the set with no prices
C18_Witness ==
    /\ all_cycle.op = "update"
    /\ active_sensors = {"INYECTION"}
    /\ sensors["PVPC"] = <<>>
    /\ all_cycle.fetches # {}
    /\ \A f \in all_cycle.fetches : f.key = "INYECTION"

\* C19: taking an indicator out of the active set leaves its series as it
\* was, at the removal and in the update cycles that follow.
C19_RemovalKeepsSeries ==
    [][/\ all_cycle'.op = "active" => sensors' = sensors
       /\ all_cycle'.op = "update"
           => \A k \in SensorKeys \ active_sensors :
                  sensors'[k] = sensors[k]]_vars

\* a cycle that fetched for the active indicator while the one taken out of
\* the set kept its prices
C19_Witness ==
    /\ all_cycle.op = "update"
    /\ all_cycle.fetches # {}
    /\ \E k \in SensorKeys \ active_sensors : sensors[k] # <<>>

\* C17: within an update cycle the series is modified only once every fetch
\* of the cycle has completed, in the step after which no fetch is pending,
\* and the cycle computes no state or attributes before that.
C17_MergeAfterAllFetches ==
    [][pc' # pc
       => (/\ current_prices' # current_prices => (pc # "idle" /\ pc' = "idle")
           /\ UNCHANGED <<state, state_available, attributes>>)]_vars

\* the prices of today are downloaded and the fetch of the next day is
\* pending: the series does not hold them yet
C17_Witness ==
    /\ pc = "get_next_day"
    /\ up.prices # <<>>
    /\ \A i \in 1..Len(up.prices) : up.prices[i].ts \notin Keys(current_prices)

\* the day asked is a national holiday of the table
TableHoliday ==
    \E y \in DOMAIN NATIONAL_EXTRA_HOLIDAYS_FOR_P3_PERIOD :
        /\ y = tariff_in.year
        /\ <<tariff_in.month, tariff_in.day>>
               \in NATIONAL_EXTRA_HOLIDAYS_FOR_P3_PERIOD[y]

\* the day asked is a Saturday or a Sunday
Weekend ==
    date_isoweekday(tariff_in.year, tariff_in.month, tariff_in.day) \in {6, 7}

ValleyTime == TableHoliday \/ Weekend \/ tariff_in.hour \in 0..7

ShoulderHour ==
    tariff_in.hour \in (IF tariff_in.zone THEN {8, 9, 10, 15, 16, 17, 18, 23}
                        ELSE {8, 9, 14, 15, 16, 17, 22, 23})

\* C20: for every local date, hour and zone flag the period is P3 exactly on
\* a holiday of the table, a Saturday or Sunday, or before 08:00; otherwise
\* P2 exactly in a shoulder hour of the zone; otherwise P1.
C20_PeriodOfEveryDate ==
    tariff_period # "none"
    => /\ tariff_period = "P3" <=> ValleyTime
       /\ tariff_period = "P2" <=> (~ValleyTime /\ ShoulderHour)
       /\ tariff_period = "P1" <=> (~ValleyTime /\ ~ShoulderHour)

\* the same for the dates of the years which the table has
C20_PeriodOfTableYears ==
    tariff_in.year \in FirstTableYear..LastTableYear => C20_PeriodOfEveryDate

\* the periods of the hours after the local time asked
PeriodIn(delta) ==
    pvpc_tariff_period_key(plus_hours(tariff_in, delta), tariff_in.zone)

Returned == tariff_period # NoPeriods /\ tariff_period.raised = "none"

\* C21: the call returns (current, next, delta) with current # next, delta a
\* whole number of hours >= 1, next the period at local_ts + delta, and the
\* current period at every hour before it: delta is the first hour at which
\* the period differs.
C21_DeltaIsFirstChange ==
    Returned
    => /\ tariff_period.current = PeriodIn(0)
       /\ tariff_period.current # tariff_period.next
       /\ tariff_period.delta \in Nat /\ tariff_period.delta >= 1
       /\ tariff_period.next = PeriodIn(tariff_period.delta)
       /\ \A j \in 1..(tariff_period.delta - 1) :
              PeriodIn(j) = tariff_period.current

\* a walk of several hours has returned
C21_Witness ==
    /\ Returned
    /\ tariff_period.delta > 1
    /\ tariff_period.current = "P1"
    /\ tariff_period.next = "P2"

\* C22: the walk ends after at most 24 steps: delta never exceeds 24 hours.
C22_DeltaAtMost24 == Returned => tariff_period.delta <= 24

\* C22 (amended): for a local time of the years of the table whose walk stays
\* in them, the walk ends after at most 80 steps: three days of valley, a
\* weekend with a holiday next to it, and the eight hours of the morning
\* after.
C22_DeltaAtMost80 == Returned => tariff_period.delta <= 3 * 24 + 8

\* the walk over a weekend with a holiday next to it
C22_Witness == Returned /\ tariff_period.delta = 3 * 24 + 8

\* C23: the evaluation never raises because of the holiday table, not for a
\* year absent from the table and not for a walk that crosses into one.
C23_NeverKeyError == tariff_period # NoPeriods => tariff_period.raised = "none"

\* the walk from an hour of the last year of the table raises
C23_RaisedInsideTable ==
    ~(/\ tariff_period # NoPeriods
      /\ tariff_period.raised # "none"
      /\ tariff_in.year = LastTableYear)

\* the keys of the price tag attributes
PriceTagKeys ==
    {pre \o Hour02d(h) \o suf :
        pre \in {"price_", "price_next_day_"}, h \in 0..23, suf \in {"h", "h_d"}}

\* attributes were produced by the call just made
Produced == cycle.op = "process" /\ cycle.ok

\* the entries of the series of a local wall-clock hour and a window
SameTag(i) ==
    LET local_time == astimezone(UtcDatetime(clock), local_timezone)
        Tag(j) == PriceTag(astimezone(UtcDatetime(current_prices[j].ts),
                                      local_timezone), local_time)
    IN  {j \in 1..Len(current_prices) : Tag(j) = Tag(i)}

\* C24: entries that share a local wall-clock hour are emitted each under its
\* own key, none overwritten: there are as many price tag attributes as
\* entries, and every price is the value of a price tag.
C24_EveryEntryHasItsTag ==
    Produced
    => /\ Cardinality(DOMAIN attributes \cap PriceTagKeys) = Len(current_prices)
       /\ \A i \in 1..Len(current_prices) :
              \E k \in DOMAIN attributes \cap PriceTagKeys :
                  attributes[k] = current_prices[i].price

\* C24 for a series with at most two entries of a local hour and window
C24_TwoEntriesOfAnHour ==
    (Produced /\ \A i \in 1..Len(current_prices) : Cardinality(SameTag(i)) <= 2)
    => Cardinality(DOMAIN attributes \cap PriceTagKeys) = Len(current_prices)

\* the local ISO-calendar position of entry i of the series is strictly after
\* that of the reference time: year, then week, then weekday
AfterReference(i) ==
    LET a == isocalendar(DateOf(astimezone(UtcDatetime(current_prices[i].ts),
                                           local_timezone)))
        b == isocalendar(DateOf(astimezone(UtcDatetime(clock), local_timezone)))
    IN  \/ a[1] > b[1]
        \/ a[1] = b[1] /\ a[2] > b[2]
        \/ a[1] = b[1] /\ a[2] = b[2] /\ a[3] > b[3]

NextDayTagKeys ==
    {"price_next_day_" \o Hour02d(h) \o suf : h \in 0..23, suf \in {"h", "h_d"}}

\* C25: an entry is classified as next-day exactly when its local ISO-calendar
\* position is strictly after the reference's, so there are as many next-day
\* price tags as such entries, the reference hour is of today, and an entry
\* of an earlier local day is never of the next day.
C25_NextDayIsAfterReference ==
    Produced
    => /\ Cardinality(DOMAIN attributes \cap NextDayTagKeys)
              = Cardinality({i \in 1..Len(current_prices) : AfterReference(i)})
       /\ RefPriceKey \in DOMAIN attributes

\* make_price_sensor_attributes has made the attributes of the series
Made == cycle.op = "attributes"

\* the entries of the series that the call classifies as of today, and those
\* of the next day
TodayWindow ==
    split_today_tomorrow_prices(current_prices, UtcDatetime(clock),
                                local_timezone).today

TomorrowWindow ==
    split_today_tomorrow_prices(current_prices, UtcDatetime(clock),
                                local_timezone).tomorrow

\* C26, as stated: whenever attributes are produced, min_price is the minimum
\* and max_price the maximum of all the values held in the series.
C26_ExtremesOfSeries ==
    Made => /\ attributes["min_price"] = SetMin(Values(current_prices))
            /\ attributes["max_price"] = SetMax(Values(current_prices))

\* C26, amended: min_price and max_price are the extremes of the entries of
\* the series not classified as next-day, and "min_price (next day)" and
\* "max_price (next day)" those of the entries classified as next-day.
C26_ExtremesOfWindow ==
    Made => /\ attributes["min_price"] = SetMin(Values(TodayWindow))
            /\ attributes["max_price"] = SetMax(Values(TodayWindow))
            /\ TomorrowWindow # <<>>
                   => /\ attributes["min_price (next day)"]
                             = SetMin(Values(TomorrowWindow))
                      /\ attributes["max_price (next day)"]
                             = SetMax(Values(TomorrowWindow))

\* the series holds a price of the next day below every price of today
C26_Witness ==
    /\ Made
    /\ Len(TodayWindow) >= 24
    /\ Len(TomorrowWindow) >= 24
    /\ attributes["min_price (next day)"] < attributes["min_price"]
    /\ attributes["min_price (next day)"] = SetMin(Values(current_prices))

\* C27: the price tag of the hour reported for an extreme holds the extreme:
\* price_{min_price_at}h equals min_price and price_{max_price_at}h equals
\* max_price, for every indicator.
C27_TagOfExtremeHour ==
    LET Tag(at) == "price_" \o Hour02d(attributes[at]) \o "h"
        Holds(at, extreme) ==
            /\ Tag(at) \in DOMAIN attributes
            /\ attributes[Tag(at)] = attributes[extreme]
    IN  (Made \/ Produced)
        => Holds("min_price_at", "min_price") /\ Holds("max_price_at", "max_price")

\* the entries of today after the reference hour with a price strictly better
\* than the current one
BetterAhead ==
    LET current_price == Get(current_prices, clock)
    IN  {i \in 1..Len(TodayWindow) :
            /\ TodayWindow[i].ts > clock
            /\ IF sensor_key = KEY_INJECTION
               THEN TodayWindow[i].price > current_price
               ELSE TodayWindow[i].price < current_price}

BetterKeys ==
    {"next_better_price", "hours_to_better_price", "num_better_prices_ahead"}

\* C28: num_better_prices_ahead is the number of entries of the window later
\* than the reference hour with a strictly better price, lower or, for the
\* injection price, higher; the three attributes of the better prices are all
\* present when that number is positive and all absent when it is zero.
C28_BetterPricesAhead ==
    Made
    => IF BetterAhead = {} THEN BetterKeys \cap DOMAIN attributes = {}
       ELSE /\ BetterKeys \subseteq DOMAIN attributes
            /\ attributes["num_better_prices_ahead"] = Cardinality(BetterAhead)

\* a higher price ahead is the better one for the injection price
C28_Witness ==
    /\ Made
    /\ sensor_key = KEY_INJECTION
    /\ "num_better_prices_ahead" \in DOMAIN attributes
    /\ attributes["num_better_prices_ahead"] > 1
    /\ attributes["num_better_prices_ahead"] < Len(TodayWindow) - 1
    /\ attributes["next_better_price"] > Get(current_prices, clock)

\* price_ratio, in hundredths, of a window, under the key of the window
RatioOf(window, key) ==
    /\ key \in DOMAIN attributes
           <=> SetMin(Values(window)) # SetMax(Values(window))
    /\ key \in DOMAIN attributes => attributes[key] \in 0..100

\* C29: in every window for which it is emitted, price_ratio is between 0 and
\* 1, and it is omitted exactly when the least price of the window equals the
\* greatest.
C29_RatioInUnitInterval ==
    Made => /\ RatioOf(TodayWindow, "price_ratio")
            /\ TomorrowWindow # <<>>
                   => RatioOf(TomorrowWindow, "price_ratio (next day)")

\* C29 for the window of today alone
C29_RatioOfToday == Made => RatioOf(TodayWindow, "price_ratio")

\* the periods at the reference time: current, next and hours to the next
PeriodsAtReference ==
    get_current_and_next_tariff_periods(
        astimezone(UtcDatetime(clock), local_timezone), ZoneCeutaMelilla)

\* C30: for the regulated tariff, available_power is the valley contracted
\* power exactly when the current period is P3 and the standard contracted
\* power otherwise, and hours_to_next_period is the delta, in whole hours,
\* returned for the next change of period.
C30_PowerOfPeriod ==
    Produced
    => /\ attributes.period = PeriodsAtReference[1]
       /\ attributes.available_power = PowerValley
              <=> PeriodsAtReference[1] = "P3"
       /\ attributes.available_power = Power
              <=> PeriodsAtReference[1] # "P3"
       /\ attributes.hours_to_next_period = PeriodsAtReference[3]

\* 23:00 of a working day: the standard power, and one hour to the valley
C30_Witness ==
    /\ Produced
    /\ attributes.period = "P2"
    /\ attributes.available_power = Power
    /\ attributes.next_period = "P3"
    /\ attributes.hours_to_next_period = 1

-----------------------------------------------------------------------------
(* The reference key *)

\* C31: for every input timestamp, naive, UTC or of any other zone, the key
\* process_state_and_attributes looks up is the UTC instant of the same moment
\* truncated to the hour: a UTC datetime with minutes zero, the hour in course.
C31_ReferenceKeyIsUtcHour ==
    cycle.op = "process"
        => /\ cycle.utc_time.tz = UTC_TZ
           /\ Instant(cycle.utc_time) = clock
           /\ Instant(cycle.utc_time) % MinutesPerHour = 0

-----------------------------------------------------------------------------
(* The tariff of the object *)

\* the tariff passed is neither a current tariff nor a legacy one
UnknownTariff ==
    /\ new_args.tariff # "None"
    /\ \A i \in 1..Len(TARIFFS) : new_args.tariff # TARIFFS[i]
    /\ \A i \in 1..Len(OLD_TARIFFS) : new_args.tariff # OLD_TARIFFS[i]

\* C32: constructing PVPCData with a tariff that is neither a current tariff
\* nor a legacy tariff raises an error: no object with a substituted tariff
\* comes out of the construction.
C32_UnknownTariffRaises ==
    (instance.constructed /\ UnknownTariff)
        => instance.raised # "none"

-----------------------------------------------------------------------------
(* What process_state_and_attributes does to the series *)

\* the midnight, in the reference zone, of the day of the reference time
RefMidnight ==
    Instant([wall |-> RefDate * MinutesPerDay, tz |-> REFERENCE_TZ, fold |-> 0])

\* the series without its entries strictly before the midnight of the
\* reference day
FromRefMidnight(d) ==
    LET Fresh(e) == e.ts >= RefMidnight
    IN  SelectSeq(d, Fresh)

\* C33: process_state_and_attributes never adds or changes a price of the
\* series; it removes entries only when the series holds more than 25 points
\* and the local hour is before 20:00, and then it removes exactly the entries
\* strictly before the midnight, in the reference zone, of the reference day,
\* whether or not the reference hour is available.
C33_OnlyPrunesBeforeMidnight ==
    [][cycle'.op = "process"
       => current_prices' =
              IF /\ Len(current_prices) > 25
                 /\ HourOf(astimezone(UtcDatetime(clock), local_timezone)) < 20
              THEN FromRefMidnight(current_prices)
              ELSE current_prices]_vars

-----------------------------------------------------------------------------
(* The nearest better price and the position of the price *)

\* the window the attributes of the last call were computed on: the series
\* for pvpc_data.py, its entries of today for prices.py
WindowOfCall == IF Made THEN TodayWindow ELSE current_prices

\* a price better than the price p: lower, or higher for the injection price
BetterThan(q, p) ==
    IF Made /\ sensor_key = KEY_INJECTION THEN q > p ELSE q < p

\* the entries of the window later than the reference hour with a better price
LaterBetter ==
    {i \in 1..Len(WindowOfCall) :
        /\ WindowOfCall[i].ts > clock
        /\ BetterThan(WindowOfCall[i].price, Get(current_prices, clock))}

\* the entries of a series follow one another in time
Chronological(d) == \A i \in 1..(Len(d) - 1) : d[i].ts < d[i + 1].ts

\* C34: when present, hours_to_better_price is the distance in whole hours
\* from the reference hour to the nearest later entry of the window with a
\* strictly better price, and next_better_price is the price of that entry,
\* after any sequence of update cycles: the merges leave the series in the
\* order of time.
C34_NearestBetterPrice ==
    ((Produced \/ Made) /\ "hours_to_better_price" \in DOMAIN attributes)
    => /\ LaterBetter # {}
       /\ LET nearest == CHOOSE i \in LaterBetter :
                  \A j \in LaterBetter :
                      WindowOfCall[i].ts <= WindowOfCall[j].ts
          IN  /\ attributes["hours_to_better_price"] =
                     (WindowOfCall[nearest].ts - clock) \div MinutesPerHour
              /\ attributes["next_better_price"] =
                     WindowOfCall[nearest].price

\* the nearest better price is some hours ahead, not the best of the window,
\* in a series of two days merged by an evening cycle
C34_Witness ==
    /\ Made
    /\ ~Chronological(current_prices)
    /\ "hours_to_better_price" \in DOMAIN attributes
    /\ attributes["hours_to_better_price"] > 1
    /\ attributes["num_better_prices_ahead"] > 1
    /\ \E i \in LaterBetter :
           BetterThan(WindowOfCall[i].price, attributes["next_better_price"])

\* the entries of the window of today with a price better than the current one
BetterInWindow ==
    {i \in 1..Len(TodayWindow) :
        BetterThan(TodayWindow[i].price, Get(current_prices, clock))}

\* C35: for the window of today price_position is always present and is 1
\* plus the number of prices of the window strictly better than the current
\* price, lower or, for the injection price, higher; so it lies between 1 and
\* the size of the window.
C35_PricePosition ==
    Made
    => /\ "price_position" \in DOMAIN attributes
       /\ attributes["price_position"] = 1 + Cardinality(BetterInWindow)
       /\ attributes["price_position"] \in 1..Len(TodayWindow)

\* the position of an injection price with several higher prices in the
\* window, two of them equal
C35_Witness ==
    /\ Made
    /\ sensor_key = KEY_INJECTION
    /\ attributes["price_position"] > 2
    /\ attributes["price_position"] < Len(TodayWindow)
    /\ \E i, j \in BetterInWindow :
           i # j /\ TodayWindow[i].price = TodayWindow[j].price

-----------------------------------------------------------------------------
(* A lookup that fails *)

\* C36: when process_state_and_attributes returns False, state_available is
\* False and the attributes published are the base ones only, attribution and
\* tariff, with no price or period of an earlier hour, while the state
\* published before is left as it was.
C36_FailedLookupPublishesBase ==
    [][(cycle'.op = "process" /\ ~cycle'.ok)
       => /\ ~state_available'
          /\ DOMAIN attributes' = {"attribution", "tariff"}
          /\ attributes'["attribution"] = ATTRIBUTION
          /\ attributes'["tariff"] = Tariff
          /\ state' = state]_vars

\* a lookup that failed after an hour whose price was published: the state
\* is still that price and the attributes of that hour are gone
C36_Witness ==
    /\ cycle.op = "process"
    /\ ~cycle.ok
    /\ ~state_available
    /\ state \in Values(current_prices)
    /\ DOMAIN attributes = {"attribution", "tariff"}

-----------------------------------------------------------------------------
(* The download of a range *)

\* no GET is awaited and no worker task has its first step to take
NoRequestInCourse ==
    /\ workers # <<>>
    /\ \A w \in DOMAIN workers : workers[w].pc \notin {"created", "downloading"}

\* C37: in a range download every day of the range is taken from the queue
\* by one worker and requested exactly once, whatever the number of workers,
\* and a day whose download failed is omitted without failing the others:
\* once no request is in course every day has been requested once and marked
\* done, so that the download goes on to collect the results.
C37_NoDayLeftBehind ==
    (rng.pc = "join" /\ NoRequestInCourse)
        => /\ requested = rng.days
           /\ queue.unfinished = 0

\* C38: async_download_prices_for_range ends returning a dict for every start
\* and end and every positive number of workers, also with more workers than
\* days and with no day in the range: no exception leaves the call.
C38_RangeReturnsADict ==
    rng.pc = "done" => rng.raised = "none"

\* C39: a web session given by the caller is never closed or replaced, and a
\* session made for a range download is closed and cleared whenever the
\* download ends.
C39_TemporalSessionClosed ==
    /\ new_args.websession = "caller"
           => (websessions["caller"] = "open" /\ instance.session = "caller")
    /\ (rng.pc = "done" /\ new_args.websession = "None")
           => (websessions["temporal"] # "open" /\ instance.session = "None")

=============================================================================
